---- MODULE Spec2Model ----
(***************************************************************************)
(* Thought Chain MCP server: the chain controller (handlers.js), the       *)
(* Store (database.js, sql.js tables plus the disk image), the entity      *)
(* model and validator (models.js) and the tool-call dispatch of           *)
(* server.js.                                                              *)
(*                                                                         *)
(* Text is a sequence of one-character tokens; control characters are      *)
(* named tokens ("TAB", "LF", ...).  Timestamps are the readings of a      *)
(* logical clock (1..MaxTime); two calls may read the same instant.        *)
(* Chain ids are fresh integers (generateId is 128 random bits,            *)
(* collisions are not modelled); IdText is the id as a caller spells it.    *)
(***************************************************************************)
EXTENDS Integers, Sequences, FiniteSets, TLC

(* ------------------------------ bounds --------------------------------- *)
\* at most this many tool calls and restarts in one behaviour
MaxCalls == 3
\* the clock readings are 1..MaxTime
MaxTime == 2
\* at most this many injected Store / disk write failures in one behaviour
MaxFaults == 1

(* --------------------------- JS values --------------------------------- *)
\* null timestamp (updated / concluded of a fresh chain)
Null == 0
\* "no chain id": the id of the not-found sentinel
NoId == 0
\* JS undefined for an absent string argument
Undefined == <<"undefined">>
\* JS null for a step's reflection
NullText == <<"null">>

\* JS truthiness of a string-or-absent value
Truthy(s) == s # Undefined /\ s # NullText /\ s # <<>>

(* ------------------------------ text ----------------------------------- *)
UpperSeq == <<"A","B","C","D","E","F","G","H","I","J","K","L","M",
              "N","O","P","Q","R","S","T","U","V","W","X","Y","Z">>
LowerSeq == <<"a","b","c","d","e","f","g","h","i","j","k","l","m",
              "n","o","p","q","r","s","t","u","v","w","x","y","z">>
DigitSeq == <<"0","1","2","3","4","5","6","7","8","9">>

Range(f) == {f[i] : i \in DOMAIN f}

\* String.prototype.toLowerCase, one character
LowerChar(c) ==
  IF c \in Range(UpperSeq)
    THEN LowerSeq[CHOOSE i \in DOMAIN UpperSeq : UpperSeq[i] = c]
    ELSE c

ToLowerCase(s) == [i \in 1..Len(s) |-> LowerChar(s[i])]

\* the character code of the control tokens; printable tokens are not controls
IsControl(c) == c \in {"NUL", "BEL", "BS", "TAB", "LF", "VT", "FF", "CR", "ESC", "US", "DEL"}

\* the characters String.prototype.trim strips
IsSpace(c) == c \in {" ", "TAB", "LF", "VT", "FF", "CR"}

\* regex \w
IsWordChar(c) == c \in Range(UpperSeq) \cup Range(LowerSeq) \cup Range(DigitSeq) \cup {"_"}

RECURSIVE TrimStart(_)
TrimStart(s) ==
  IF s = <<>> THEN s
  ELSE IF IsSpace(Head(s)) THEN TrimStart(Tail(s)) ELSE s

RECURSIVE TrimEnd(_)
TrimEnd(s) ==
  IF s = <<>> THEN s
  ELSE IF IsSpace(s[Len(s)]) THEN TrimEnd(SubSeq(s, 1, Len(s) - 1)) ELSE s

\* String.prototype.trim
Trim(s) == TrimEnd(TrimStart(s))

\* String.prototype.includes
Includes(s, pat) ==
  \E i \in 1..(Len(s) - Len(pat) + 1) : SubSeq(s, i, i + Len(pat) - 1) = pat

(* ---------------------------- validator -------------------------------- *)
\* mutant of DangerousPatterns: the match is case-sensitive
DangerousPatterns_CaseSensitive(s) ==
  LET l == s IN
    \/ Includes(l, <<"<","s","c","r","i","p","t">>)
    \/ Includes(l, <<"j","a","v","a","s","c","r","i","p","t",":">>)
    \/ \E i \in 1..Len(l) : \E j \in (i + 2)..(Len(l) - 1) :
         /\ l[i] = "o" /\ l[i + 1] = "n"
         /\ \A k \in (i + 2)..j : IsWordChar(l[k])
         /\ l[j + 1] = "="
    \/ Includes(l, <<"d","a","t","a",":","t","e","x","t">>)
    \/ Includes(l, <<"v","b","s","c","r","i","p","t",":">>)

\* /<script|javascript:|on\w+=|data:text|vbscript:/i
DangerousPatterns(s) ==
  LET l == ToLowerCase(s) IN
    \/ Includes(l, <<"<","s","c","r","i","p","t">>)
    \/ Includes(l, <<"j","a","v","a","s","c","r","i","p","t",":">>)
    \/ \E i \in 1..Len(l) : \E j \in (i + 2)..(Len(l) - 1) :
         /\ l[i] = "o" /\ l[i + 1] = "n"
         /\ \A k \in (i + 2)..j : IsWordChar(l[k])
         /\ l[j + 1] = "="
    \/ Includes(l, <<"d","a","t","a",":","t","e","x","t">>)
    \/ Includes(l, <<"v","b","s","c","r","i","p","t",":">>)

\* mutant of InjectionPatterns: the comment markers are not looked for
InjectionPatterns_NoComments(s) ==
  \E i \in 1..Len(s) : s[i] \in {"'", "\"", ";", "\\"}

\* /['";\\]|--+|\/\*|\*\//i
InjectionPatterns(s) ==
  \/ \E i \in 1..Len(s) : s[i] \in {"'", "\"", ";", "\\"}
  \/ Includes(s, <<"-","-">>)
  \/ Includes(s, <<"/","*">>)
  \/ Includes(s, <<"*","/">>)

\* mutant of ControlCharacters: tab, line feed and carriage return are let through
ControlCharacters_NoWhitespace(s) ==
  \E i \in 1..Len(s) : IsControl(s[i]) /\ s[i] \notin {"TAB", "LF", "CR"}

\* /[\x00-\x1F\x7F]/g, a fresh regex object on every call
ControlCharacters(s) == \E i \in 1..Len(s) : IsControl(s[i])

Ok == "ok"
MaxThoughtLength == 10000
MaxReflectionLength == 5000
ValidActions == {"add_step", "review_chain", "conclude", "new_chain"}

\* validateToolArguments('thought_chain', args): the message thrown, or Ok
ValidateThoughtChainArgs(args) ==
  IF args.action = ""
    THEN "Action is required and must be a string"
  ELSE IF args.action \notin ValidActions
    THEN "Invalid action: ${}. Must be one of: add_step, review_chain, conclude, new_chain"
  ELSE IF args.action \in {"add_step", "conclude"} /\ ~Truthy(args.thought)
    THEN "Thought is required for add_step and conclude actions"
  ELSE IF args.action \in {"add_step", "conclude"} /\ Len(args.thought) > MaxThoughtLength
    THEN "Thought content too long (max 10000 characters)"
  ELSE IF args.action \in {"add_step", "conclude"} /\ DangerousPatterns(args.thought)
    THEN "Thought content contains potentially dangerous content"
  ELSE IF args.action \in {"add_step", "conclude"} /\ InjectionPatterns(args.thought)
    THEN "Thought content contains potentially dangerous patterns"
  ELSE IF args.action \in {"add_step", "conclude"} /\ ControlCharacters(args.thought)
    THEN "Thought content contains invalid characters"
  ELSE IF Truthy(args.reflection) /\ Len(args.reflection) > MaxReflectionLength
    THEN "Reflection content too long (max 5000 characters)"
  ELSE IF Truthy(args.reflection) /\ DangerousPatterns(args.reflection)
    THEN "Reflection content contains potentially dangerous content"
  ELSE IF Truthy(args.reflection) /\ InjectionPatterns(args.reflection)
    THEN "Reflection content contains potentially dangerous patterns"
  ELSE IF Truthy(args.reflection) /\ ControlCharacters(args.reflection)
    THEN "Reflection content contains invalid characters"
  ELSE Ok

(* ------------------------------ messages ------------------------------- *)
\* the place of the interpolated value in a template literal, ${...}
Hole == "${}"

\* the characters of the string literals of the source that the model names
Characters ==
     ("Action is required and must be a string" :>
       <<"A","c","t","i","o","n"," ","i","s"," ","r","e","q","u","i","r","e","d"," ","a","n",
         "d"," ","m","u","s","t"," ","b","e"," ","a"," ","s","t","r","i","n","g">>)
  @@ ("Invalid action: ${}. Must be one of: add_step, review_chain, conclude, new_chain" :>
       <<"I","n","v","a","l","i","d"," ","a","c","t","i","o","n",":"," ",Hole,"."," ","M","u",
         "s","t"," ","b","e"," ","o","n","e"," ","o","f",":"," ","a","d","d","_","s","t","e",
         "p",","," ","r","e","v","i","e","w","_","c","h","a","i","n",","," ","c","o","n","c",
         "l","u","d","e",","," ","n","e","w","_","c","h","a","i","n">>)
  @@ ("Thought is required for add_step and conclude actions" :>
       <<"T","h","o","u","g","h","t"," ","i","s"," ","r","e","q","u","i","r","e","d"," ","f",
         "o","r"," ","a","d","d","_","s","t","e","p"," ","a","n","d"," ","c","o","n","c","l",
         "u","d","e"," ","a","c","t","i","o","n","s">>)
  @@ ("Thought content too long (max 10000 characters)" :>
       <<"T","h","o","u","g","h","t"," ","c","o","n","t","e","n","t"," ","t","o","o"," ","l",
         "o","n","g"," ","(","m","a","x"," ","1","0","0","0","0"," ","c","h","a","r","a","c",
         "t","e","r","s",")">>)
  @@ ("Thought content contains potentially dangerous content" :>
       <<"T","h","o","u","g","h","t"," ","c","o","n","t","e","n","t"," ","c","o","n","t","a",
         "i","n","s"," ","p","o","t","e","n","t","i","a","l","l","y"," ","d","a","n","g","e",
         "r","o","u","s"," ","c","o","n","t","e","n","t">>)
  @@ ("Thought content contains potentially dangerous patterns" :>
       <<"T","h","o","u","g","h","t"," ","c","o","n","t","e","n","t"," ","c","o","n","t","a",
         "i","n","s"," ","p","o","t","e","n","t","i","a","l","l","y"," ","d","a","n","g","e",
         "r","o","u","s"," ","p","a","t","t","e","r","n","s">>)
  @@ ("Thought content contains invalid characters" :>
       <<"T","h","o","u","g","h","t"," ","c","o","n","t","e","n","t"," ","c","o","n","t","a",
         "i","n","s"," ","i","n","v","a","l","i","d"," ","c","h","a","r","a","c","t","e","r","s">>)
  @@ ("Reflection content too long (max 5000 characters)" :>
       <<"R","e","f","l","e","c","t","i","o","n"," ","c","o","n","t","e","n","t"," ","t","o",
         "o"," ","l","o","n","g"," ","(","m","a","x"," ","5","0","0","0"," ","c","h","a","r",
         "a","c","t","e","r","s",")">>)
  @@ ("Reflection content contains potentially dangerous content" :>
       <<"R","e","f","l","e","c","t","i","o","n"," ","c","o","n","t","e","n","t"," ","c","o",
         "n","t","a","i","n","s"," ","p","o","t","e","n","t","i","a","l","l","y"," ","d","a",
         "n","g","e","r","o","u","s"," ","c","o","n","t","e","n","t">>)
  @@ ("Reflection content contains potentially dangerous patterns" :>
       <<"R","e","f","l","e","c","t","i","o","n"," ","c","o","n","t","e","n","t"," ","c","o",
         "n","t","a","i","n","s"," ","p","o","t","e","n","t","i","a","l","l","y"," ","d","a",
         "n","g","e","r","o","u","s"," ","p","a","t","t","e","r","n","s">>)
  @@ ("Reflection content contains invalid characters" :>
       <<"R","e","f","l","e","c","t","i","o","n"," ","c","o","n","t","e","n","t"," ","c","o",
         "n","t","a","i","n","s"," ","i","n","v","a","l","i","d"," ","c","h","a","r","a","c",
         "t","e","r","s">>)
  @@ ("Thought content is required when adding a step" :>
       <<"T","h","o","u","g","h","t"," ","c","o","n","t","e","n","t"," ","i","s"," ","r","e",
         "q","u","i","r","e","d"," ","w","h","e","n"," ","a","d","d","i","n","g"," ","a"," ",
         "s","t","e","p">>)
  @@ ("Conclusion thought is required" :>
       <<"C","o","n","c","l","u","s","i","o","n"," ","t","h","o","u","g","h","t"," ","i","s",
         " ","r","e","q","u","i","r","e","d">>)
  @@ ("Unknown action: ${}" :>
       <<"U","n","k","n","o","w","n"," ","a","c","t","i","o","n",":"," ",Hole>>)
  @@ ("Chain ID is required and must be a string" :>
       <<"C","h","a","i","n"," ","I","D"," ","i","s"," ","r","e","q","u","i","r","e","d"," ",
         "a","n","d"," ","m","u","s","t"," ","b","e"," ","a"," ","s","t","r","i","n","g">>)
  @@ ("Chain ID too long (max 100 characters)" :>
       <<"C","h","a","i","n"," ","I","D"," ","t","o","o"," ","l","o","n","g"," ","(","m","a",
         "x"," ","1","0","0"," ","c","h","a","r","a","c","t","e","r","s",")">>)
  @@ ("Chain ID contains invalid characters or invalid length" :>
       <<"C","h","a","i","n"," ","I","D"," ","c","o","n","t","a","i","n","s"," ","i","n","v",
         "a","l","i","d"," ","c","h","a","r","a","c","t","e","r","s"," ","o","r"," ","i","n",
         "v","a","l","i","d"," ","l","e","n","g","t","h">>)
  @@ ("Chain ID contains invalid path sequences" :>
       <<"C","h","a","i","n"," ","I","D"," ","c","o","n","t","a","i","n","s"," ","i","n","v",
         "a","l","i","d"," ","p","a","t","h"," ","s","e","q","u","e","n","c","e","s">>)
  @@ ("Thought chain with ID ${} not found" :>
       <<"T","h","o","u","g","h","t"," ","c","h","a","i","n"," ","w","i","t","h"," ","I","D",
         " ",Hole," ","n","o","t"," ","f","o","u","n","d">>)
  @@ ("Thought chain must have a valid id" :>
       <<"T","h","o","u","g","h","t"," ","c","h","a","i","n"," ","m","u","s","t"," ","h","a",
         "v","e"," ","a"," ","v","a","l","i","d"," ","i","d">>)
  @@ ("Thought chain must have a valid created timestamp" :>
       <<"T","h","o","u","g","h","t"," ","c","h","a","i","n"," ","m","u","s","t"," ","h","a",
         "v","e"," ","a"," ","v","a","l","i","d"," ","c","r","e","a","t","e","d"," ","t","i",
         "m","e","s","t","a","m","p">>)
  @@ ("Rate limit exceeded. Please wait before making more requests." :>
       <<"R","a","t","e"," ","l","i","m","i","t"," ","e","x","c","e","e","d","e","d","."," ",
         "P","l","e","a","s","e"," ","w","a","i","t"," ","b","e","f","o","r","e"," ","m","a",
         "k","i","n","g"," ","m","o","r","e"," ","r","e","q","u","e","s","t","s",".">>)
  @@ ("Query too long (max 1000 characters)" :>
       <<"Q","u","e","r","y"," ","t","o","o"," ","l","o","n","g"," ","(","m","a","x"," ","1",
         "0","0","0"," ","c","h","a","r","a","c","t","e","r","s",")">>)
  @@ ("Query contains invalid characters" :>
       <<"Q","u","e","r","y"," ","c","o","n","t","a","i","n","s"," ","i","n","v","a","l","i",
         "d"," ","c","h","a","r","a","c","t","e","r","s">>)
  @@ ("Query contains invalid path sequences" :>
       <<"Q","u","e","r","y"," ","c","o","n","t","a","i","n","s"," ","i","n","v","a","l","i",
         "d"," ","p","a","t","h"," ","s","e","q","u","e","n","c","e","s">>)
  @@ ("Limit must be a number between 1 and 100" :>
       <<"L","i","m","i","t"," ","m","u","s","t"," ","b","e"," ","a"," ","n","u","m","b","e",
         "r"," ","b","e","t","w","e","e","n"," ","1"," ","a","n","d"," ","1","0","0">>)
  @@ ("recall_thoughts" :>
       <<"r","e","c","a","l","l","_","t","h","o","u","g","h","t","s">>)
  @@ ("get_stats" :>
       <<"g","e","t","_","s","t","a","t","s">>)
  @@ ("out of memory" :>
       <<"o","u","t"," ","o","f"," ","m","e","m","o","r","y">>)
  @@ ("An internal error occurred. Please try again." :>
       <<"A","n"," ","i","n","t","e","r","n","a","l"," ","e","r","r","o","r"," ","o","c","c",
         "u","r","r","e","d","."," ","P","l","e","a","s","e"," ","t","r","y"," ","a","g","a",
         "i","n",".">>)
  @@ ("ok" :>
       <<"o","k">>)
  @@ ("add_step" :>
       <<"a","d","d","_","s","t","e","p">>)
  @@ ("review_chain" :>
       <<"r","e","v","i","e","w","_","c","h","a","i","n">>)
  @@ ("conclude" :>
       <<"c","o","n","c","l","u","d","e">>)
  @@ ("new_chain" :>
       <<"n","e","w","_","c","h","a","i","n">>)
  @@ ("internal" :>
       <<"i","n","t","e","r","n","a","l">>)
  @@ ("summarize" :>
       <<"s","u","m","m","a","r","i","z","e">>)
  @@ ("" :>
       <<>>)
  @@ ("database" :>
       <<"d","a","t","a","b","a","s","e">>)
  @@ ("non-existent-chain" :>
       <<"n","o","n","-","e","x","i","s","t","e","n","t","-","c","h","a","i","n">>)
  @@ ("a/b" :>
       <<"a","/","b">>)

\* mutant of Interpolate: the value is left out of the message
Interpolate_Dropped(tpl, value) == SelectSeq(tpl, LAMBDA c : c # Hole)

\* a template literal with its value filled in
Interpolate(tpl, value) ==
  IF \E h \in 1..Len(tpl) : tpl[h] = Hole
    THEN LET h == CHOOSE i \in 1..Len(tpl) : tpl[i] = Hole
         IN SubSeq(tpl, 1, h - 1) \o value \o SubSeq(tpl, h + 1, Len(tpl))
    ELSE tpl

\* error.message.includes('database') || includes('SQL') || includes('internal')
Sensitive(msg) ==
  \/ Includes(msg, Characters["database"])
  \/ Includes(msg, <<"S", "Q", "L">>)
  \/ Includes(msg, Characters["internal"])

GenericMessage == "An internal error occurred. Please try again."

\* handleToolError: the message shown to the caller
SafeMessage(msg) == IF Sensitive(msg) THEN Characters[GenericMessage] ELSE msg

(* ------------------------------ chain ids ------------------------------ *)
HexSeq == <<"0","1","2","3","4","5","6","7","8","9","a","b","c","d","e","f">>

\* toString("hex") of the bytes of an id
RECURSIVE ToHex(_)
ToHex(n) ==
  IF n < 16 THEN <<HexSeq[n + 1]>>
  ELSE ToHex(n \div 16) \o <<HexSeq[(n % 16) + 1]>>

\* chain_id arguments that no generateId() call produced, by the name the model
\* gives them
OtherIds ==
     (-1 :> Characters["database"])
  @@ (-2 :> Characters["non-existent-chain"])
  @@ (-3 :> Characters["a/b"])

\* the longest chain_id the validator lets through
MaxChainIdLength == 100

\* chain_id arguments of callers that probe the validator: the ids of the
\* test 'should validate chain ID format' and well-formed ones next to them
ProbedIds ==
     (-4 :> <<".",".","/",".",".","/",".",".","/","e","t","c","/","p","a","s","s","w","d">>)
  @@ (-5 :> <<"v","a","l","i","d","-","c","h","a","i","n","-","i","d","-","1","2","3">>)
  @@ (-6 :> <<"c","h","a","i","n"," ","i","d"," ","w","i","t","h"," ","s","p","a","c","e","s">>)
  @@ (-7 :> <<"c","h","a","i","n","@","i","d","#","w","i","t","h","$","s","p","e","c","i","a","l","%","c","h","a","r","s">>)
  @@ (-8 :> <<"a","LF">>)
  @@ (-9 :> <<"A","_","z","-","9">>)
  @@ (-10 :> [i \in 1..MaxChainIdLength |-> "a"])
  @@ (-11 :> [i \in 1..(MaxChainIdLength + 1) |-> "a"])
  @@ (-12 :> <<>>)
  @@ (-13 :> <<".",".">>)

\* the chain_id string of an id
IdText(id) ==
  IF id \in DOMAIN OtherIds THEN OtherIds[id]
  ELSE IF id \in DOMAIN ProbedIds THEN ProbedIds[id]
  ELSE ToHex(id)

\* mutant of ValidateLoadArgs: only the path traversal test, no grammar test
ValidateLoadArgs_PathOnly(chain_id) ==
  IF ~Truthy(chain_id)
    THEN "Chain ID is required and must be a string"
  ELSE IF Len(chain_id) > MaxChainIdLength
    THEN "Chain ID too long (max 100 characters)"
  ELSE IF Includes(chain_id, <<".", ".">>) \/ Includes(chain_id, <<"/">>)
    THEN "Chain ID contains invalid path sequences"
  ELSE Ok

\* validateToolArguments('load_thought_chain', args): the message thrown, or Ok
ValidateLoadArgs(chain_id) ==
  IF ~Truthy(chain_id)
    THEN "Chain ID is required and must be a string"
  ELSE IF Len(chain_id) > MaxChainIdLength
    THEN "Chain ID too long (max 100 characters)"
  ELSE IF ~(\A i \in 1..Len(chain_id) : IsWordChar(chain_id[i]) \/ chain_id[i] = "-")
    THEN "Chain ID contains invalid characters or invalid length"
  ELSE IF Includes(chain_id, <<".", ".">>) \/ Includes(chain_id, <<"/">>)
    THEN "Chain ID contains invalid path sequences"
  ELSE Ok

(* ------------------- recall_thoughts arguments ------------------------- *)
\* a limit argument with its typeof: a number, the decimal string of a number,
\* or absent
Num(n) == [type |-> "number", n |-> n]
Str(n) == [type |-> "string", n |-> n]
NoLimit == [type |-> "undefined", n |-> 0]

\* JS truthiness of a limit argument: every number but 0, every non-empty string
TruthyLimit(limit) ==
  \/ limit.type = "number" /\ limit.n # 0
  \/ limit.type = "string"

MaxQueryLength == 1000
MinLimit == 1
MaxLimit == 100

\* /[<>'"\\]/
SearchPatterns(s) == \E i \in 1..Len(s) : s[i] \in {"<", ">", "'", "\"", "\\"}

\* /[\x00-\x08\x0B\x0C\x0E-\x1F\x7F]/g: the controls without tab, line feed and
\* carriage return
QueryControlCharacters(s) == \E i \in 1..Len(s) : IsControl(s[i]) /\ s[i] \notin {"TAB", "LF", "CR"}

\* validateToolArguments('recall_thoughts', args): the message thrown, or Ok
ValidateRecallArgs(args) ==
  IF Truthy(args.query) /\ Len(args.query) > MaxQueryLength
    THEN "Query too long (max 1000 characters)"
  ELSE IF Truthy(args.query) /\ SearchPatterns(args.query)
    THEN "Query contains invalid characters"
  ELSE IF Truthy(args.query) /\ QueryControlCharacters(args.query)
    THEN "Query contains invalid characters"
  ELSE IF Truthy(args.query) /\ InjectionPatterns(args.query)
    THEN "Query contains invalid characters"
  ELSE IF Truthy(args.query) /\ (Includes(args.query, <<".", ".">>) \/ Includes(args.query, <<"/">>))
    THEN "Query contains invalid path sequences"
  ELSE IF TruthyLimit(args.limit)
          /\ (args.limit.type # "number" \/ args.limit.n < MinLimit \/ args.limit.n > MaxLimit)
    THEN "Limit must be a number between 1 and 100"
  ELSE Ok

(* --------------------------- entity model ------------------------------ *)
\* createThoughtChain(): a fresh, empty, active chain
CreateThoughtChain(id, t) ==
  [id |-> id, created |-> t, updated |-> Null, concluded |-> Null,
   status |-> "active", steps |-> <<>>]

\* createThoughtStep(stepId, thought, reflection, isConclusion)
CreateThoughtStep(stepId, thought, reflection, isConclusion, t) ==
  [id |-> stepId,
   thought |-> Trim(thought),
   reflection |-> IF Truthy(reflection) THEN Trim(reflection) ELSE NullText,
   timestamp |-> t,
   is_conclusion |-> isConclusion,
   builds_on |-> IF stepId > 1 THEN <<stepId - 1>> ELSE <<>>]

\* validateThoughtChain: the shape check made before every write
ValidateThoughtChain(chain) ==
  /\ chain.id # NoId
  /\ chain.created # Null
  /\ \A i \in 1..Len(chain.steps) :
       /\ chain.steps[i].id # 0
       /\ Truthy(chain.steps[i].thought)

(* -------------------------------- Store -------------------------------- *)
\* The sql.js database: thought_chains keyed by id, thought_steps in rowid order.
EmptyDb == [thought_chains |-> <<>>, thought_steps |-> <<>>]

\* a representative message of an error thrown by a sql.js statement
StoreError == "out of memory"

NoFault == [at |-> "none", k |-> 0]

\* the places where a statement of saveThought can throw, for this chain
Faults(chain) ==
  {NoFault, [at |-> "header", k |-> 0], [at |-> "delete", k |-> 0]}
    \cup {[at |-> "insert", k |-> i] : i \in 1..Len(chain.steps)}

\* mutant of HeaderOf: the updated stamp is not written
HeaderOf_NoUpdated(chain) ==
  [id |-> chain.id, created |-> chain.created, updated |-> Null,
   concluded |-> chain.concluded, status |-> chain.status]

HeaderOf(chain) ==
  [id |-> chain.id, created |-> chain.created, updated |-> chain.updated,
   concluded |-> chain.concluded, status |-> chain.status]

RowOf(chain, step) ==
  [chain_id |-> chain.id, step_number |-> step.id, thought |-> step.thought,
   reflection |-> step.reflection, timestamp |-> step.timestamp,
   is_conclusion |-> IF step.is_conclusion THEN 1 ELSE 0]

\* INSERT OR REPLACE INTO thought_chains
InsertOrReplaceChain(tbl, hdr) ==
  [x \in DOMAIN tbl \cup {hdr.id} |-> IF x = hdr.id THEN hdr ELSE tbl[x]]

\* mutant of DeleteSteps: the DELETE has no WHERE clause
DeleteSteps_All(rows, id) == <<>>

\* mutant of DeleteSteps: the old rows are not deleted before the insert
DeleteSteps_Skipped(rows, id) == rows

\* DELETE FROM thought_steps WHERE chain_id = ?
DeleteSteps(rows, id) == SelectSeq(rows, LAMBDA r : r.chain_id # id)

\* INSERT INTO thought_steps, the first n steps of the chain in order
InsertSteps(rows, chain, n) ==
  rows \o [i \in 1..n |-> RowOf(chain, chain.steps[i])]

\* saveToDisk: export the database to the file; a write error is logged only
SaveToDisk(d, image, diskFail) == IF diskFail THEN image ELSE d

\* saveThought(thoughtChain): [ok, err, db, disk] after the call
SaveThought(d, image, chain, fault, diskFail) ==
  IF ~ValidateThoughtChain(chain)
    THEN [ok |-> FALSE, err |-> "Thought chain must have a valid id", db |-> d, disk |-> image]
  ELSE IF fault.at = "header"
    THEN [ok |-> FALSE, err |-> StoreError, db |-> d, disk |-> image]
  ELSE LET d1 == [d EXCEPT !.thought_chains = InsertOrReplaceChain(@, HeaderOf(chain))] IN
    IF fault.at = "delete"
      THEN [ok |-> FALSE, err |-> StoreError, db |-> d1, disk |-> image]
    ELSE LET d2 == [d1 EXCEPT !.thought_steps = DeleteSteps(@, chain.id)] IN
      IF fault.at = "insert"
        THEN [ok |-> FALSE, err |-> StoreError,
              db |-> [d2 EXCEPT !.thought_steps = InsertSteps(@, chain, fault.k - 1)],
              disk |-> image]
        ELSE LET d3 == [d2 EXCEPT !.thought_steps = InsertSteps(@, chain, Len(chain.steps))] IN
          [ok |-> TRUE, err |-> Ok, db |-> d3, disk |-> SaveToDisk(d3, image, diskFail)]

\* ORDER BY step_number: insert a row into a sorted sequence
RECURSIVE InsertSorted(_, _)
InsertSorted(sorted, r) ==
  IF sorted = <<>> THEN <<r>>
  ELSE IF r.step_number < Head(sorted).step_number THEN <<r>> \o sorted
  ELSE <<Head(sorted)>> \o InsertSorted(Tail(sorted), r)

RECURSIVE OrderByStepNumber(_)
OrderByStepNumber(rows) ==
  IF rows = <<>> THEN <<>>
  ELSE InsertSorted(OrderByStepNumber(SubSeq(rows, 1, Len(rows) - 1)), rows[Len(rows)])

\* mutant of StepOf: the 0/1 flag is compared with true
StepOf_FlagLost(r) ==
  [id |-> r.step_number, thought |-> r.thought, reflection |-> r.reflection,
   timestamp |-> r.timestamp, is_conclusion |-> FALSE,
   builds_on |-> IF r.step_number > 1 THEN <<r.step_number - 1>> ELSE <<>>]

\* a step rebuilt from its row
StepOf(r) ==
  [id |-> r.step_number, thought |-> r.thought, reflection |-> r.reflection,
   timestamp |-> r.timestamp, is_conclusion |-> (r.is_conclusion = 1),
   builds_on |-> IF r.step_number > 1 THEN <<r.step_number - 1>> ELSE <<>>]

\* stepsResult[0].values.map(...)
StepsOf(rows) == [i \in 1..Len(rows) |-> StepOf(rows[i])]

\* the not-found sentinel (null)
NoChain == [id |-> NoId]

\* mutant of GetThoughtChain: an absent id gives an empty chain, not the sentinel
GetThoughtChain_NeverNull(d, chainId) ==
  IF chainId \notin DOMAIN d.thought_chains
    THEN [id |-> chainId, created |-> 1, updated |-> Null, concluded |-> Null,
          status |-> "active", steps |-> <<>>]
  ELSE LET h == d.thought_chains[chainId]
           rows == SelectSeq(d.thought_steps, LAMBDA r : r.chain_id = chainId)
       IN [id |-> h.id, created |-> h.created, updated |-> h.updated,
           concluded |-> h.concluded, status |-> h.status,
           steps |-> StepsOf(OrderByStepNumber(rows))]

\* getThoughtChain(chainId)
GetThoughtChain(d, chainId) ==
  IF chainId \notin DOMAIN d.thought_chains THEN NoChain
  ELSE LET h == d.thought_chains[chainId]
           rows == SelectSeq(d.thought_steps, LAMBDA r : r.chain_id = chainId)
       IN [id |-> h.id, created |-> h.created, updated |-> h.updated,
           concluded |-> h.concluded, status |-> h.status,
           steps |-> StepsOf(OrderByStepNumber(rows))]

(* --------------------------- Store: reads ------------------------------ *)
\* mutant of OrderByCreatedDesc: the rows come oldest first
RECURSIVE OrderByCreatedDesc_Ascending(_, _)
OrderByCreatedDesc_Ascending(tbl, ids) ==
  IF ids = {} THEN {<<>>}
  ELSE UNION {{<<id>> \o rest : rest \in OrderByCreatedDesc_Ascending(tbl, ids \ {id})} :
                id \in {i \in ids : \A j \in ids : tbl[i].created <= tbl[j].created}}

\* SELECT ... FROM thought_chains ORDER BY created DESC: the orders in which
\* the ids of `ids` may come out; SQL leaves open the order of rows with the
\* same created
RECURSIVE OrderByCreatedDesc(_, _)
OrderByCreatedDesc(tbl, ids) ==
  IF ids = {} THEN {<<>>}
  ELSE UNION {{<<id>> \o rest : rest \in OrderByCreatedDesc(tbl, ids \ {id})} :
                id \in {i \in ids : \A j \in ids : tbl[j].created <= tbl[i].created}}

\* loadSavedThoughts(): every stored chain with its steps, in the order the
\* SELECT gave
LoadSavedThoughts(d, order) == [i \in 1..Len(order) |-> GetThoughtChain(d, order[i])]

\* Array.prototype.sort((a, b) => new Date(b.created) - new Date(a.created)):
\* a stable sort, newest first
RECURSIVE SortByCreated(_)
SortByCreated(chains) ==
  IF chains = <<>> THEN <<>>
  ELSE LET sorted == SortByCreated(SubSeq(chains, 1, Len(chains) - 1))
           c == chains[Len(chains)]
           before == SelectSeq(sorted, LAMBDA x : x.created >= c.created)
           after == SelectSeq(sorted, LAMBDA x : x.created < c.created)
       IN before \o <<c>> \o after

\* Array.prototype.slice(0, limit), limit >= 0
Slice(seq, limit) == SubSeq(seq, 1, IF limit < Len(seq) THEN limit ELSE Len(seq))

\* the filter of searchThoughtChains: some step has the term in its thought or
\* in its (non-null) reflection, case-insensitively
Matches(chain, searchLower) ==
  \E i \in 1..Len(chain.steps) :
    \/ Includes(ToLowerCase(chain.steps[i].thought), searchLower)
    \/ /\ Truthy(chain.steps[i].reflection)
       /\ Includes(ToLowerCase(chain.steps[i].reflection), searchLower)

\* mutant of SearchThoughtChains: the term is compared as typed, not lowered
SearchThoughtChains_CaseSensitive(d, order, searchTerm, limit) ==
  IF ~Truthy(searchTerm) \/ Trim(searchTerm) = <<>>
    THEN Slice(LoadSavedThoughts(d, order), limit)
  ELSE LET allChains == LoadSavedThoughts(d, order)
           filtered == SelectSeq(allChains, LAMBDA chain : Matches(chain, searchTerm))
       IN Slice(SortByCreated(filtered), limit)

\* searchThoughtChains(searchTerm, limit), the SELECT having given `order`
SearchThoughtChains(d, order, searchTerm, limit) ==
  IF ~Truthy(searchTerm) \/ Trim(searchTerm) = <<>>
    THEN Slice(LoadSavedThoughts(d, order), limit)
  ELSE LET allChains == LoadSavedThoughts(d, order)
           searchLower == ToLowerCase(searchTerm)
           filtered == SelectSeq(allChains, LAMBDA chain : Matches(chain, searchLower))
       IN Slice(SortByCreated(filtered), limit)

\* SELECT id FROM thought_chains WHERE status = 'active' ORDER BY created DESC
\* LIMIT 1: the ids the query may give (none: the empty set)
MostRecentActive(d) ==
  LET active == {i \in DOMAIN d.thought_chains : d.thought_chains[i].status = "active"}
  IN {i \in active : \A j \in active : d.thought_chains[j].created <= d.thought_chains[i].created}

\* getMostRecentActiveChain(): the chains it may return, or the sentinel
GetMostRecentActiveChain(d) ==
  IF MostRecentActive(d) = {} THEN {NoChain}
  ELSE {GetThoughtChain(d, id) : id \in MostRecentActive(d)}

\* mutant of GetStats: the count of active chains has lost its WHERE clause
GetStats_ActiveAll(d) ==
  [totalChains |-> Cardinality(DOMAIN d.thought_chains),
   totalSteps |-> Len(d.thought_steps),
   activeChains |-> Cardinality(DOMAIN d.thought_chains)]

\* getStats(): the three COUNT(*) queries
GetStats(d) ==
  [totalChains |-> Cardinality(DOMAIN d.thought_chains),
   totalSteps |-> Len(d.thought_steps),
   activeChains |-> Cardinality({i \in DOMAIN d.thought_chains :
                                   d.thought_chains[i].status = "active"})]

(* ------------------------------- state --------------------------------- *)
VARIABLES
  cur,      \* server.currentThoughtChain, the in-memory current chain
  db,       \* the sql.js database held by dbManager
  disk,     \* the database image last written to the backing file
  now,      \* the last reading of the clock, new Date()
  nextId,   \* the next id generateId() returns
  pending,  \* chain id of a load_thought_chain call suspended at its await, or NoId
  faults,   \* the number of write failures injected so far
  calls,    \* the number of tool calls (and restarts) made so far
  last,     \* the last tool call: its name, arguments, injected faults and outcome
  out,      \* what the last recall_thoughts / get_stats call returned
  requests, \* rateLimiter.requests: client id -> timestamps of its admitted calls
  ms,       \* the last reading of Date.now() by the rate limiter
  asked     \* history: every isAllowed call, as [client, at, allowed]

vars == <<cur, db, disk, now, nextId, pending, faults, calls, last, out,
          requests, ms, asked>>

\* the (thought, reflection) arguments offered by callers
NoText == [thought |-> Undefined, reflection |-> Undefined]
TextArgs ==
  {NoText,
   [thought |-> <<" ">>, reflection |-> Undefined],
   [thought |-> <<"a">>, reflection |-> Undefined],
   [thought |-> <<" ", "b">>, reflection |-> <<"r", " ">>]}

\* the write failures the environment may inject into one saveThought call
Injections(chain) ==
  IF faults < MaxFaults
    THEN {[fault |-> f, diskFail |-> FALSE] : f \in Faults(chain)}
           \cup {[fault |-> NoFault, diskFail |-> TRUE]}
    ELSE {[fault |-> NoFault, diskFail |-> FALSE]}

NoInjection == [fault |-> NoFault, diskFail |-> FALSE]

Injected(inj) == IF inj = NoInjection THEN 0 ELSE 1

LoadOps == {"load_thought_chain", "load_persist"}

\* the message of the error a call threw: its template with the offending
\* action or chain_id filled in
ErrorText(op, err, chainId) ==
  Interpolate(Characters[err], IF op \in LoadOps THEN IdText(chainId) ELSE Characters[op])

Call(op, ok, err, text, chainId, inj) ==
  [op |-> op, ok |-> ok, err |-> err, thought |-> text.thought,
   reflection |-> text.reflection, chain_id |-> chainId,
   fault |-> inj.fault.at, diskFail |-> inj.diskFail]

\* the message of the error a failed call threw
Thrown(call) == ErrorText(call.op, call.err, call.chain_id)

\* the catch of the dispatcher: what handleToolError shows the caller of a
\* failed call
Reply(call) == SafeMessage(Thrown(call))

\* nothing returned yet by a recall_thoughts or get_stats call
NoResult ==
  [query |-> Undefined, limit |-> NoLimit, chains |-> <<>>,
   stats |-> [totalChains |-> 0, totalSteps |-> 0, activeChains |-> 0]]

Init ==
  /\ cur = CreateThoughtChain(1, 1)
  /\ db = EmptyDb
  /\ disk = EmptyDb
  /\ now = 1
  /\ nextId = 2
  /\ pending = NoId
  /\ faults = 0
  /\ calls = 0
  /\ last = Call("initialize", TRUE, Ok, NoText, NoId, NoInjection)
  /\ out = NoResult
  /\ requests = <<>>
  /\ ms = 0
  /\ asked = <<>>

\* new Date(): the clock never runs backwards; between two readings it has
\* either stayed at the same instant or moved on to the next
ClockReadings(t) == {u \in {t, t + 1} : u <= MaxTime}

(* ---------------------- thought_chain (handlers.js) -------------------- *)
\* const { thought = "", reflection = "" } = args
Default(s) == IF s = Undefined THEN <<>> ELSE s

\* mutant of AddStepChain: the step is numbered from the count before the push
AddStepChain_IdFromCount(chain, text, t, u) ==
  [chain EXCEPT
     !.steps = Append(@, CreateThoughtStep(Len(chain.steps), Trim(Default(text.thought)),
                                           Trim(Default(text.reflection)), FALSE, t)),
     !.updated = u]

\* the chain after add_step has pushed its step (made at t) and stamped updated (at u)
AddStepChain(chain, text, t, u) ==
  [chain EXCEPT
     !.steps = Append(@, CreateThoughtStep(Len(chain.steps) + 1, Trim(Default(text.thought)),
                                           Trim(Default(text.reflection)), FALSE, t)),
     !.updated = u]

\* mutant of ConcludeChain: the concluded stamp is forgotten
ConcludeChain_NoStamp(chain, text, t, u) ==
  [chain EXCEPT
     !.steps = Append(@, CreateThoughtStep(Len(chain.steps) + 1, Trim(Default(text.thought)),
                                           Trim(Default(text.reflection)), TRUE, t)),
     !.status = "concluded"]

\* the chain after conclude has pushed its step (made at t) and marked the chain
\* concluded (at u)
ConcludeChain(chain, text, t, u) ==
  [chain EXCEPT
     !.steps = Append(@, CreateThoughtStep(Len(chain.steps) + 1, Trim(Default(text.thought)),
                                           Trim(Default(text.reflection)), TRUE, t)),
     !.status = "concluded",
     !.concluded = u]

\* mutant of ThoughtRequired: add_step refuses a concluded chain
ThoughtRequired_RefuseConcluded(action, text) ==
  IF action = "add_step" /\ cur.status = "concluded" THEN "Thought chain is concluded"
  ELSE IF Trim(Default(text.thought)) # <<>> THEN Ok
  ELSE IF action = "add_step" THEN "Thought content is required when adding a step"
  ELSE "Conclusion thought is required"

\* mutant of ThoughtRequired: the thought is not trimmed before the test
ThoughtRequired_NoTrim(action, text) ==
  IF Default(text.thought) # <<>> THEN Ok
  ELSE IF action = "add_step" THEN "Thought content is required when adding a step"
  ELSE "Conclusion thought is required"

\* the check each of add_step and conclude makes before it touches the chain
ThoughtRequired(action, text) ==
  IF Trim(Default(text.thought)) # <<>> THEN Ok
  ELSE IF action = "add_step" THEN "Thought content is required when adding a step"
  ELSE "Conclusion thought is required"

\* mutant of NewChain: the new chain is put in the current-chain slot
NewChain_Swaps ==
  /\ calls < MaxCalls
  /\ calls' = calls + 1
  /\ \E t \in ClockReadings(now) :
       LET newChain == CreateThoughtChain(nextId, t) IN
         \E inj \in Injections(newChain) :
           \E res \in {SaveThought(db, disk, newChain, inj.fault, inj.diskFail)} :
             /\ now' = t
             /\ cur' = newChain
             /\ db' = res.db
             /\ disk' = res.disk
             /\ faults' = faults + Injected(inj)
             /\ last' = Call("new_chain", res.ok, res.err, NoText, nextId, inj)
  /\ nextId' = nextId + 1
  /\ UNCHANGED <<pending, out>>

\* action "new_chain"
NewChain ==
  /\ calls < MaxCalls
  /\ calls' = calls + 1
  /\ \E t \in ClockReadings(now) :
       LET newChain == CreateThoughtChain(nextId, t) IN
         \E inj \in Injections(newChain) :
           \E res \in {SaveThought(db, disk, newChain, inj.fault, inj.diskFail)} :
             /\ now' = t
             /\ db' = res.db
             /\ disk' = res.disk
             /\ faults' = faults + Injected(inj)
             /\ last' = Call("new_chain", res.ok, res.err, NoText, nextId, inj)
  /\ nextId' = nextId + 1
  /\ UNCHANGED <<cur, pending, out>>

\* actions "add_step" and "conclude": validate, push the step, stamp, save
Mutate(action, text) ==
  LET args == [action |-> action, thought |-> text.thought, reflection |-> text.reflection]
      v == ValidateThoughtChainArgs(args)
      req == ThoughtRequired(action, text)
  IN /\ calls < MaxCalls
     /\ calls' = calls + 1
     /\ IF v # Ok \/ req # Ok
          THEN /\ last' = Call(action, FALSE, IF v # Ok THEN v ELSE req, text, cur.id, NoInjection)
               /\ UNCHANGED <<cur, db, disk, now, faults>>
          ELSE \E t \in ClockReadings(now) : \E u \in ClockReadings(t) :
                 \E chain \in {IF action = "add_step" THEN AddStepChain(cur, text, t, u)
                                ELSE ConcludeChain(cur, text, t, u)} :
                    \E inj \in Injections(chain) :
                      \E res \in {SaveThought(db, disk, chain, inj.fault, inj.diskFail)} :
                        /\ now' = u
                        /\ cur' = chain
                        /\ db' = res.db
                        /\ disk' = res.disk
                        /\ faults' = faults + Injected(inj)
                        /\ last' = Call(action, res.ok, res.err, text, cur.id, inj)
     /\ UNCHANGED <<nextId, pending, out>>

AddStep(text) == Mutate("add_step", text)

Conclude(text) == Mutate("conclude", text)

\* mutant of Review: the steps are listed newest first
Review_NewestFirst(chain) ==
  [i \in 1..Len(chain.steps) |->
     LET step == chain.steps[Len(chain.steps) + 1 - i] IN
       [id |-> step.id, thought |-> step.thought,
        reflection |-> IF Truthy(step.reflection) THEN step.reflection ELSE <<>>,
        timestamp |-> step.timestamp]]

\* the text review_chain returns, entry by entry: steps.forEach in array
\* order, the reflection line only for a truthy reflection
Review(chain) ==
  [i \in 1..Len(chain.steps) |->
     LET step == chain.steps[i] IN
       [id |-> step.id, thought |-> step.thought,
        reflection |-> IF Truthy(step.reflection) THEN step.reflection ELSE <<>>,
        timestamp |-> step.timestamp]]

\* action "review_chain": renders the steps, changes nothing
ReviewChain ==
  /\ calls < MaxCalls
  /\ calls' = calls + 1
  /\ last' = Call("review_chain", TRUE, Ok, NoText, cur.id, NoInjection)
  /\ UNCHANGED <<cur, db, disk, now, nextId, pending, faults, out>>

\* a thought_chain call with any other action: the validator refuses it, so
\* the default branch of the switch is never reached
OtherAction(action, text) ==
  LET args == [action |-> action, thought |-> text.thought, reflection |-> text.reflection]
      v == ValidateThoughtChainArgs(args)
  IN /\ calls < MaxCalls
     /\ calls' = calls + 1
     /\ last' = Call(action, FALSE, IF v # Ok THEN v ELSE "Unknown action: ${}", text,
                     cur.id, NoInjection)
     /\ UNCHANGED <<cur, db, disk, now, nextId, pending, faults, out>>

(* ------------------- load_thought_chain (server.js) -------------------- *)
\* handleLoadThoughtChain runs to its end, then the dispatcher's await suspends the call
LoadPersist(chainId) ==
  /\ pending = NoId
  /\ calls < MaxCalls
  /\ calls' = calls + 1
  /\ LET v == ValidateLoadArgs(IdText(chainId))
         chain == GetThoughtChain(db, chainId)
     IN
       IF v # Ok
         THEN /\ last' = Call("load_thought_chain", FALSE, v, NoText, chainId, NoInjection)
              /\ UNCHANGED <<db, disk, pending, faults>>
       ELSE IF chain = NoChain
         THEN /\ last' = Call("load_thought_chain", FALSE, "Thought chain with ID ${} not found",
                              NoText, chainId, NoInjection)
              /\ UNCHANGED <<db, disk, pending, faults>>
         ELSE LET active == [chain EXCEPT !.status = "active"] IN
              \E inj \in Injections(active) :
                \E res \in {SaveThought(db, disk, active, inj.fault, inj.diskFail)} :
                  /\ db' = res.db
                  /\ disk' = res.disk
                  /\ faults' = faults + Injected(inj)
                  /\ pending' = IF res.ok THEN chainId ELSE NoId
                  /\ last' = Call(IF res.ok THEN "load_persist" ELSE "load_thought_chain",
                                  res.ok, res.err, NoText, chainId, inj)
  /\ UNCHANGED <<cur, now, nextId, out>>

\* the call resumes: fetch the chain again and swap the current-chain slot
LoadSwap ==
  /\ pending # NoId
  /\ LET loadedChain == GetThoughtChain(db, pending) IN
       cur' = IF loadedChain # NoChain THEN loadedChain ELSE cur
  /\ pending' = NoId
  /\ last' = Call("load_thought_chain", TRUE, Ok, NoText, pending, NoInjection)
  /\ UNCHANGED <<db, disk, now, nextId, faults, calls, out>>

(* ------------------ recall_thoughts, get_stats (handlers.js) ----------- *)
\* const { query = "", limit = 5 } = args
DefaultLimit == 5

\* handleRecallThoughts: validate, search the Store, list what was found
RecallThoughts(query, limit) ==
  /\ calls < MaxCalls
  /\ calls' = calls + 1
  /\ LET v == ValidateRecallArgs([query |-> query, limit |-> limit]) IN
       IF v # Ok
         THEN /\ last' = Call("recall_thoughts", FALSE, v, NoText, NoId, NoInjection)
              /\ UNCHANGED out
         ELSE \E order \in OrderByCreatedDesc(db.thought_chains, DOMAIN db.thought_chains) :
                /\ out' = [NoResult EXCEPT
                             !.query = query,
                             !.limit = limit,
                             !.chains = SearchThoughtChains(db, order, Default(query),
                                          IF limit = NoLimit THEN DefaultLimit ELSE limit.n)]
                /\ last' = Call("recall_thoughts", TRUE, Ok, NoText, NoId, NoInjection)
  /\ UNCHANGED <<cur, db, disk, now, nextId, pending, faults>>

\* handleGetStats: the counts of the Store
HandleGetStats ==
  /\ calls < MaxCalls
  /\ calls' = calls + 1
  /\ out' = [NoResult EXCEPT !.stats = GetStats(db)]
  /\ last' = Call("get_stats", TRUE, Ok, NoText, NoId, NoInjection)
  /\ UNCHANGED <<cur, db, disk, now, nextId, pending, faults>>

\* server.js builds RateLimiter(100, 60000): it admits every call of a
\* behaviour of at most MaxCalls calls, and its bookkeeping is left aside here
Unthrottled == UNCHANGED <<requests, ms, asked>>

Next ==
  \/ NewChain /\ Unthrottled
  \/ \E text \in TextArgs : AddStep(text) /\ Unthrottled
  \/ \E text \in TextArgs : Conclude(text) /\ Unthrottled
  \/ ReviewChain /\ Unthrottled
  \/ \E id \in 1..nextId : LoadPersist(id) /\ Unthrottled
  \/ LoadSwap /\ Unthrottled

Spec == Init /\ [][Next]_vars

\* The same server offered every kind of call, the refused ones included: a
\* thought that is absent, empty or blank, an action outside the enum, a
\* chain_id that names no chain or is malformed.
OtherActions == {"internal", "summarize", ""}

AThought == [thought |-> <<"a">>, reflection |-> Undefined]

CallTexts ==
  {NoText,
   [thought |-> <<>>, reflection |-> Undefined],
   [thought |-> <<" ">>, reflection |-> Undefined],
   [thought |-> <<"TAB">>, reflection |-> Undefined],
   [thought |-> <<" ">>, reflection |-> <<"'">>],
   [thought |-> <<"I", "'", "m">>, reflection |-> Undefined],
   AThought}

NextCalls ==
  \/ NewChain /\ Unthrottled
  \/ \E text \in CallTexts : AddStep(text) /\ Unthrottled
  \/ \E text \in CallTexts : Conclude(text) /\ Unthrottled
  \/ ReviewChain /\ Unthrottled
  \/ \E action \in OtherActions : OtherAction(action, AThought) /\ Unthrottled
  \/ \E id \in (1..nextId) \cup DOMAIN OtherIds : LoadPersist(id) /\ Unthrottled
  \/ LoadSwap /\ Unthrottled

SpecCalls == Init /\ [][NextCalls]_vars

(* ------------------------ a server with a past ------------------------- *)
\* ThoughtChainServer.initialize: the slot takes the most recent active chain
\* of the Store if there is one, else it keeps the constructor's fresh chain
Initialize(fresh, d) ==
  {IF activeChain # NoChain THEN activeChain ELSE fresh :
     activeChain \in GetMostRecentActiveChain(d)}

\* at most this many chains in the backing file the server starts on
MaxPast == 2

PastText == [thought |-> <<"x">>, reflection |-> <<"A", "b">>]

\* a chain of an earlier session: empty, with one step, or concluded by a step
\* that has a reflection
PastChain(id, t, shape) ==
  IF shape = "empty" THEN CreateThoughtChain(id, t)
  ELSE IF shape = "step" THEN AddStepChain(CreateThoughtChain(id, t), AThought, t, t)
  ELSE ConcludeChain(CreateThoughtChain(id, t), PastText, t, t)

\* the latest created stamp of a Store (the first instant for an empty one)
Latest(d) ==
  IF DOMAIN d.thought_chains = {} THEN 1
  ELSE CHOOSE t \in 1..MaxTime :
         /\ \E i \in DOMAIN d.thought_chains : d.thought_chains[i].created = t
         /\ \A i \in DOMAIN d.thought_chains : d.thought_chains[i].created <= t

\* the Stores earlier sessions can have left: chains 1..n saved one after the
\* other, each created no earlier than the one before
RECURSIVE PastStores(_)
PastStores(n) ==
  IF n = 0 THEN {EmptyDb}
  ELSE LET before == PastStores(n - 1) IN
    before \cup
      UNION {{SaveThought(d, d, PastChain(n, t, shape), NoFault, FALSE).db :
                t \in Latest(d)..MaxTime, shape \in {"empty", "step", "concluded"}} :
             d \in {b \in before : Cardinality(DOMAIN b.thought_chains) = n - 1}}

\* the server started on a backing file with a past, no call made yet
InitStored ==
  \E image \in PastStores(MaxPast) :
    LET n == Cardinality(DOMAIN image.thought_chains) IN
      /\ db = image
      /\ disk = image
      /\ now = Latest(image)
      /\ cur \in Initialize(CreateThoughtChain(n + 1, Latest(image)), image)
      /\ nextId = n + 2
      /\ pending = NoId
      /\ faults = 0
      /\ calls = 0
      /\ last = Call("initialize", TRUE, Ok, NoText, NoId, NoInjection)
      /\ out = NoResult
      /\ requests = <<>>
      /\ ms = 0
      /\ asked = <<>>

\* the search terms and limits offered to recall_thoughts
Queries == {Undefined, <<" ">>, <<"a">>, <<"A", "B">>}

Limits == {NoLimit, Num(1), Num(2)}

\* at most this many calls are made to the server with a past, or by hostile
\* callers to a fresh one
MaxReads == 1

NextRecall ==
  \/ /\ calls < MaxReads
     /\ \E query \in Queries : \E limit \in Limits : RecallThoughts(query, limit)
     /\ Unthrottled
  \/ /\ calls < MaxReads
     /\ HandleGetStats
     /\ Unthrottled

SpecRecall == InitStored /\ [][NextRecall]_vars

(* --------------------------- restarts ---------------------------------- *)
\* shutdown() and a new run() on the same backing file: close() writes the
\* database out (a write error is logged only), the process exits, the next
\* one reads the file, makes its fresh chain and initializes the slot; a
\* restart counts against MaxCalls like a call
Restart ==
  /\ calls < MaxCalls
  /\ calls' = calls + 1
  /\ \E closeFail \in BOOLEAN :
       \E image \in {SaveToDisk(db, disk, closeFail)} :
         \E t \in ClockReadings(now) :
           /\ disk' = image
           /\ db' = image
           /\ now' = t
           /\ cur' \in Initialize(CreateThoughtChain(nextId, t), image)
  /\ nextId' = nextId + 1
  /\ pending' = NoId
  /\ last' = Call("initialize", TRUE, Ok, NoText, NoId, NoInjection)
  /\ out' = NoResult
  /\ UNCHANGED faults

\* sessions of the server on one backing file, with thought_chain, load and
\* get_stats calls
NextSessions ==
  \/ NewChain /\ Unthrottled
  \/ AddStep(AThought) /\ Unthrottled
  \/ Conclude(AThought) /\ Unthrottled
  \/ \E id \in 1..nextId : LoadPersist(id) /\ Unthrottled
  \/ LoadSwap /\ Unthrottled
  \/ HandleGetStats /\ Unthrottled
  \/ Restart /\ Unthrottled

SpecSessions == Init /\ [][NextSessions]_vars

(* ------------------------- RateLimiter (server.js) --------------------- *)
\* new RateLimiter(maxRequests, windowMs); the server's own is (100, 60000),
\* the class is run here with a small limit and window
MaxRequests == 2
WindowMs == 2
\* the readings of Date.now() are 0..MaxMs
MaxMs == 3

\* this.clientId of the server, and a client of a limiter used directly
ServerClient == "client-1"
OtherClient == "test-client"

RateLimitExceeded == "Rate limit exceeded. Please wait before making more requests."

\* this.requests.get(clientId), [] for a client the Map does not hold
RequestsOf(reqs, clientId) == IF clientId \in DOMAIN reqs THEN reqs[clientId] ELSE <<>>

\* requests.filter((timestamp) => timestamp > windowStart)
ValidRequests(timestamps, t) == SelectSeq(timestamps, LAMBDA timestamp : timestamp > t - WindowMs)

\* this.requests.set(clientId, timestamps)
SetRequests(reqs, clientId, timestamps) ==
  [c \in DOMAIN reqs \cup {clientId} |-> IF c = clientId THEN timestamps ELSE reqs[c]]

\* mutant of IsAllowed: a refused call is pushed on the window too
IsAllowed_CountsRefused(reqs, clientId, t) ==
  LET validRequests == ValidRequests(RequestsOf(reqs, clientId), t) IN
    [allowed |-> Len(validRequests) < MaxRequests,
     requests |-> SetRequests(reqs, clientId, Append(validRequests, t))]

\* mutant of IsAllowed: the limit is tested after the push
IsAllowed_OneMore(reqs, clientId, t) ==
  LET validRequests == ValidRequests(RequestsOf(reqs, clientId), t) IN
    IF Len(validRequests) > MaxRequests
      THEN [allowed |-> FALSE, requests |-> SetRequests(reqs, clientId, validRequests)]
      ELSE [allowed |-> TRUE,
            requests |-> SetRequests(reqs, clientId, Append(validRequests, t))]

\* mutant of IsAllowed: old timestamps are never dropped
IsAllowed_NoExpiry(reqs, clientId, t) ==
  LET validRequests == RequestsOf(reqs, clientId) IN
    IF Len(validRequests) >= MaxRequests
      THEN [allowed |-> FALSE, requests |-> SetRequests(reqs, clientId, validRequests)]
      ELSE [allowed |-> TRUE,
            requests |-> SetRequests(reqs, clientId, Append(validRequests, t))]

\* isAllowed(clientId) at Date.now() = t: the verdict and the Map afterwards
IsAllowed(reqs, clientId, t) ==
  LET validRequests == ValidRequests(RequestsOf(reqs, clientId), t) IN
    IF Len(validRequests) >= MaxRequests
      THEN [allowed |-> FALSE, requests |-> SetRequests(reqs, clientId, validRequests)]
      ELSE [allowed |-> TRUE,
            requests |-> SetRequests(reqs, clientId, Append(validRequests, t))]

\* the rate limiting check of the dispatcher in front of a handler: a refused
\* call is answered by handleToolError and reaches no handler
Throttled(name, Handler) ==
  \E verdict \in {IsAllowed(requests, ServerClient, ms)} :
    /\ requests' = verdict.requests
    /\ asked' = Append(asked, [client |-> ServerClient, at |-> ms, allowed |-> verdict.allowed])
    /\ UNCHANGED ms
    /\ IF verdict.allowed
         THEN Handler
         ELSE /\ calls < MaxCalls
              /\ calls' = calls + 1
              /\ last' = Call(name, FALSE, RateLimitExceeded, NoText, NoId, NoInjection)
              /\ UNCHANGED <<cur, db, disk, now, nextId, pending, faults, out>>

\* limiter.isAllowed(clientId) called on the limiter directly
Probe(clientId) ==
  /\ calls < MaxCalls
  /\ calls' = calls + 1
  /\ \E verdict \in {IsAllowed(requests, clientId, ms)} :
       /\ requests' = verdict.requests
       /\ asked' = Append(asked, [client |-> clientId, at |-> ms, allowed |-> verdict.allowed])
       /\ last' = Call("isAllowed", verdict.allowed, Ok, NoText, NoId, NoInjection)
  /\ UNCHANGED <<cur, db, disk, now, nextId, pending, faults, out, ms>>

\* mutant of Cleanup: every client is dropped, expired or not
Cleanup_DropsAll ==
  /\ requests' = <<>>
  /\ UNCHANGED <<cur, db, disk, now, nextId, pending, faults, calls, last, out, ms, asked>>

\* cleanup(), run by the interval timer: drop expired timestamps and the
\* clients left without any
Cleanup ==
  /\ requests' =
       [c \in {x \in DOMAIN requests : ValidRequests(requests[x], ms) # <<>>} |->
          ValidRequests(requests[c], ms)]
  /\ UNCHANGED <<cur, db, disk, now, nextId, pending, faults, calls, last, out, ms, asked>>

\* a millisecond passes
Tick ==
  /\ ms < MaxMs
  /\ ms' = ms + 1
  /\ UNCHANGED <<cur, db, disk, now, nextId, pending, faults, calls, last, out, requests, asked>>

NextLimiter ==
  \/ Throttled("add_step", AddStep(AThought))
  \/ Throttled("review_chain", ReviewChain)
  \/ Probe(OtherClient)
  \/ Cleanup
  \/ Tick

SpecLimiter == Init /\ [][NextLimiter]_vars

(* --------------------------- hostile callers --------------------------- *)
\* the SQL payloads of spec 8 and of the test 'should prevent SQL injection
\* patterns', and the comment markers on their own
SqlPayloads ==
  {<<"'"," ","O","R"," ","1","=","1">>,
   <<"'",";"," ","D","R","O","P"," ","T","A","B","L","E"," ","x",";"," ","-","-">>,
   <<"'"," ","U","N","I","O","N"," ","S","E","L","E","C","T"," ","*"," ","F","R","O","M"," ","y">>,
   <<"'"," ","O","R"," ","'","1","'","=","'","1">>,
   <<"a","-","-">>,
   <<"/","*"," ","*","/">>,
   <<"*","/">>}

\* the markup of the tests 'should prevent XSS in thoughts', in both cases,
\* with and without a quote after it
ScriptPayloads ==
  {<<"<","s","c","r","i","p","t",">">>,
   <<"<","S","c","R","i","P","t",">","a","l","e","r","t","(","\"","x","s","s","\"",")","<","/","s","c","r","i","p","t",">">>,
   <<"j","a","v","a","s","c","r","i","p","t",":">>,
   <<"J","a","v","a","S","c","r","i","p","t",":","a","l","e","r","t","(","\"","x","s","s","\"",")">>,
   <<"o","n","e","r","r","o","r","=">>,
   <<"<","i","m","g"," ","s","r","c","=","x"," ","o","n","e","r","r","o","r","=","a","l","e","r","t","(","\"","x","s","s","\"",")",">">>}

\* texts with one control character, at the start, inside and at the end
ControlPayloads ==
  {<<"T","NUL","t">>, <<"T","US">>, <<"DEL","t">>, <<"T","CR","LF","e">>,
   <<"T","TAB","t">>, <<"TAB">>, <<"ESC">>}

\* texts that more than one filter matches
MixedPayloads ==
  {<<"'"," ","O","R"," ","1","=","1"," ","<","s","c","r","i","p","t">>,
   <<"TAB","'">>,
   <<"NUL","o","n","x","=">>,
   <<"-","-","BEL">>}

\* a payload inside ordinary words
Embedded(payload) == <<"a"," ">> \o payload \o <<" ","b">>

\* a text one character longer than the validator lets through
TooLong(payload) == payload \o [i \in 1..(MaxThoughtLength + 1 - Len(payload)) |-> "a"]

LongPayloads ==
  {TooLong(<<"a">>), TooLong(<<"<","s","c","r","i","p","t">>), TooLong(<<"'",";","-","-">>),
   TooLong(<<"NUL">>)}

\* the thoughts hostile callers send, and a harmless one
HostileThoughts ==
  LET short == SqlPayloads \cup ScriptPayloads \cup ControlPayloads \cup MixedPayloads IN
    short \cup {Embedded(payload) : payload \in short} \cup LongPayloads \cup {<<"a">>}

HostileTexts == {[thought |-> thought, reflection |-> Undefined] : thought \in HostileThoughts}

\* the queries sent to recall_thoughts: one with each control character the
\* model names, and harmless ones
HostileQueries ==
  {Undefined, <<"a">>, <<"a","TAB","b">>, <<"a","LF">>, <<"CR","a">>, <<"NUL","a">>,
   <<"a","BEL">>, <<"BS">>, <<"a","VT","b">>, <<"FF">>, <<"ESC","a">>, <<"a","US">>, <<"DEL">>}

\* the limits sent to recall_thoughts: in and out of 1..100, and a string
HostileLimits ==
  {NoLimit, Num(0), Num(MinLimit), Num(MaxLimit), Num(MaxLimit + 1), Num(0 - 1), Str(DefaultLimit)}

\* calls of hostile callers to a fresh server, at most MaxReads of them: the
\* chain ids they send name no stored chain
NextHostile ==
  \/ /\ calls < MaxReads
     /\ \E text \in HostileTexts : AddStep(text)
     /\ Unthrottled
  \/ /\ calls < MaxReads
     /\ \E text \in HostileTexts : Conclude(text)
     /\ Unthrottled
  \/ /\ calls < MaxReads
     /\ \E query \in HostileQueries : \E limit \in HostileLimits : RecallThoughts(query, limit)
     /\ Unthrottled
  \/ /\ calls < MaxReads
     /\ \E id \in DOMAIN OtherIds \cup DOMAIN ProbedIds : LoadPersist(id)
     /\ Unthrottled

SpecHostile == Init /\ [][NextHostile]_vars

(* ------------------------- helpers of the claims ----------------------- *)
StoredIds(d) == DOMAIN d.thought_chains

\* the rows thought_steps holds for one chain
RowCount(d, id) == Len(SelectSeq(d.thought_steps, LAMBDA r : r.chain_id = id))

\* step ids are 1..n in order and each step builds on its predecessor
WellNumbered(steps) ==
  \A i \in 1..Len(steps) :
    /\ steps[i].id = i
    /\ steps[i].builds_on = IF i = 1 THEN <<>> ELSE <<i - 1>>

IsPrefix(s, t) == Len(s) <= Len(t) /\ SubSeq(t, 1, Len(s)) = s

\* this step is the tool call `op` (every call is counted and records itself in last)
Called(op) == calls' = calls + 1 /\ last'.op = op

\* this step is a tool call `op` that reported success
Succeeded(op) == Called(op) /\ last'.ok

\* this step is a tool call `op` that reported an error
Failed(op) == Called(op) /\ ~last'.ok

\* the arguments of the call just made pass validation and carry a thought
ValidText(call) ==
  /\ ValidateThoughtChainArgs([action |-> call.op, thought |-> call.thought,
                               reflection |-> call.reflection]) = Ok
  /\ Trim(Default(call.thought)) # <<>>

(* ------------------------------- claims -------------------------------- *)
\* C1: every chain, in memory and in the Store, has step ids 1..n in ascending
\* order without gaps, builds_on = [] for step 1 and [i-1] for step i > 1; and
\* each successful add_step lengthens the current chain by exactly one step, so
\* N successful add_step calls on an empty chain leave exactly N steps.
C1_Numbered ==
  /\ WellNumbered(cur.steps)
  /\ \A id \in StoredIds(db) : WellNumbered(GetThoughtChain(db, id).steps)

C1_StepNumbering ==
  /\ []C1_Numbered
  /\ [][Succeeded("add_step") =>
          /\ cur'.id = cur.id
          /\ Len(cur'.steps) = Len(cur.steps) + 1
          /\ cur'.steps[Len(cur'.steps)].id = Len(cur.steps) + 1]_vars

C1_Witness ==
  /\ last.op = "add_step" /\ last.ok
  /\ Len(cur.steps) = 3
  /\ cur.updated = cur.created
  /\ Len(GetThoughtChain(db, cur.id).steps) = 3

\* C2: a failed add_step or conclude leaves the in-memory current chain exactly
\* as it was before the call.
C2_FailureLeavesChain ==
  [][(Failed("add_step") \/ Failed("conclude")) => cur' = cur]_vars

\* C3: a stored chain never disappears and its stored steps only grow: what was
\* stored stays a prefix of what is stored.
C3_AppendOnly ==
  [][\A id \in StoredIds(db) :
       /\ id \in StoredIds(db')
       /\ IsPrefix(GetThoughtChain(db, id).steps, GetThoughtChain(db', id).steps)]_vars

\* C4: after a successful saveThought(chain), getThoughtChain(chain.id) returns
\* the chain that was saved: same id, timestamps, status and steps in order.
C4_RoundTrip ==
  [][/\ (Succeeded("add_step") \/ Succeeded("conclude")) =>
          GetThoughtChain(db', cur'.id) = cur'
     /\ Succeeded("new_chain") =>
          GetThoughtChain(db', nextId) = CreateThoughtChain(nextId, now')
     /\ Succeeded("load_persist") =>
          GetThoughtChain(db', pending') =
            [GetThoughtChain(db, pending') EXCEPT !.status = "active"]]_vars

C4_Witness ==
  /\ last.op = "conclude" /\ last.ok
  /\ Len(cur.steps) = 2
  /\ cur.steps[1].reflection = NullText
  /\ cur.steps[2].reflection = <<"r">>
  /\ cur.steps[1].timestamp < cur.steps[2].timestamp
  /\ GetThoughtChain(db, cur.id) = cur

\* C5: saving the same chain twice leaves the Store as saving it once does:
\* the same headers and the same step rows, the chain reads back as it was
\* saved and has as many step rows as it has steps.  Checked for the current chain on every
\* reachable Store, and on the program's own second save (a load of a chain
\* that is active already saves it as it is stored).
SameStore(d1, d2) ==
  /\ StoredIds(d1) = StoredIds(d2)
  /\ \A id \in StoredIds(d1) :
       /\ GetThoughtChain(d1, id) = GetThoughtChain(d2, id)
       /\ RowCount(d1, id) = RowCount(d2, id)
  /\ Len(d1.thought_steps) = Len(d2.thought_steps)

C5_SavedTwice ==
  \A once \in {SaveThought(db, disk, cur, NoFault, FALSE)} :
    \A twice \in {SaveThought(once.db, once.disk, cur, NoFault, FALSE)} :
      /\ once.ok /\ twice.ok
      /\ twice.db = once.db
      /\ GetThoughtChain(twice.db, cur.id) = cur
      /\ RowCount(twice.db, cur.id) = Len(cur.steps)

C5_SaveIdempotent ==
  /\ []C5_SavedTwice
  /\ [][(Succeeded("load_persist")
           /\ GetThoughtChain(db, pending').status = "active") =>
          /\ SameStore(db, db')
          /\ RowCount(db', pending') = Len(GetThoughtChain(db, pending').steps)]_vars

C5_Witness ==
  /\ last.op = "load_persist" /\ last.ok
  /\ GetThoughtChain(db, pending).concluded = Null
  /\ Len(GetThoughtChain(db, pending).steps) = 2
  /\ cur.id = pending
  /\ Len(db.thought_steps) = 2

\* C6: a saveThought that fails leaves the stored header and steps exactly as
\* they were before the call.
C6_AllOrNothing ==
  [][(calls' = calls + 1 /\ ~last'.ok /\ last'.err = StoreError) => db' = db]_vars

\* C7: when the write to the backing file fails during a save, the call that
\* triggered the save does not report success.
C7_DiskFailurePropagates == last.diskFail => ~last.ok

\* C8: a successful conclude appends exactly one step, numbered previous count
\* + 1 and flagged is_conclusion, marks the chain concluded, stamps concluded,
\* and the Store copy shows the same chain.
C8_Conclude ==
  [][Succeeded("conclude") =>
       /\ cur'.id = cur.id
       /\ Len(cur'.steps) = Len(cur.steps) + 1
       /\ SubSeq(cur'.steps, 1, Len(cur.steps)) = cur.steps
       /\ cur'.steps[Len(cur'.steps)].id = Len(cur.steps) + 1
       /\ cur'.steps[Len(cur'.steps)].is_conclusion
       /\ cur'.steps[Len(cur'.steps)].thought = Trim(last'.thought)
       /\ cur'.status = "concluded"
       /\ cur'.concluded = now'
       /\ GetThoughtChain(db', cur.id) = cur']_vars

C8_Witness ==
  /\ last.op = "conclude" /\ last.ok
  /\ Len(cur.steps) = 3
  /\ cur.status = "concluded"
  /\ GetThoughtChain(db, cur.id).steps[3].is_conclusion

\* C9: add_step with a valid thought on a current chain that is concluded (and
\* so has not been reloaded) succeeds when the Store write does: it appends the
\* step with the next id and persists the chain.
C9_AddAfterConclude ==
  [][(Called("add_step") /\ cur.status = "concluded" /\ ValidText(last')
        /\ last'.fault = "none") =>
       /\ last'.ok
       /\ Len(cur'.steps) = Len(cur.steps) + 1
       /\ SubSeq(cur'.steps, 1, Len(cur.steps)) = cur.steps
       /\ cur'.steps[Len(cur'.steps)].id = Len(cur.steps) + 1
       /\ ~cur'.steps[Len(cur'.steps)].is_conclusion
       /\ GetThoughtChain(db', cur.id) = cur']_vars

C9_Witness ==
  /\ last.op = "add_step" /\ last.ok
  /\ cur.status = "concluded"
  /\ Len(cur.steps) >= 2
  /\ cur.steps[Len(cur.steps) - 1].is_conclusion
  /\ ~cur.steps[Len(cur.steps)].is_conclusion

\* C10: after every successful add_step the current chain is active: its
\* status is "active" and its updated timestamp is set.
C10_AddStepActive ==
  [][Succeeded("add_step") => (cur'.status = "active" /\ cur'.updated # Null)]_vars

\* the chains of a state: the current chain and every chain read from the Store
Chains == {cur} \cup {GetThoughtChain(db, id) : id \in StoredIds(db)}

\* C11: in every reachable state every chain, in memory and in the Store, has
\* at most one step flagged is_conclusion, and that step is its last step.
C11_ConclusionLast ==
  \A chain \in Chains :
    \A i \in 1..Len(chain.steps) :
      chain.steps[i].is_conclusion => i = Len(chain.steps)

\* C12: in every reachable state, for every chain in memory and in the Store,
\* status is "concluded" exactly when the concluded timestamp is set and the
\* last step is a conclusion step.  Stated for the states reached without any
\* write failure, where no half-written chain is involved.
C12_StatusIffConcluded ==
  faults = 0 =>
    \A chain \in Chains :
      (chain.status = "concluded") <=>
        (/\ chain.concluded # Null
         /\ chain.steps # <<>>
         /\ chain.steps[Len(chain.steps)].is_conclusion)

\* this step is the load in flight returning to its caller
LoadReturns == pending # NoId /\ pending' = NoId

\* C13: a successful load of a stored chain sets its status to "active" in the
\* Store, and when the load returns the current-chain slot holds that chain
\* with the steps it had and status "active", in memory and in the Store.
C13_LoadActivates ==
  [][/\ Succeeded("load_persist") =>
          /\ GetThoughtChain(db', pending').status = "active"
          /\ GetThoughtChain(db', pending').steps = GetThoughtChain(db, pending').steps
     /\ LoadReturns =>
          /\ last'.ok
          /\ cur'.id = pending
          /\ cur'.status = "active"
          /\ GetThoughtChain(db', pending) = cur']_vars

\* C14: loading a well-formed chain id that the Store does not hold fails with
\* an error whose message contains "not found", and leaves the Store, the disk
\* image and the current-chain slot as they were; no load is left in flight.
C14_LoadNotFound ==
  [][(/\ Called("load_thought_chain")
      /\ ValidateLoadArgs(IdText(last'.chain_id)) = Ok
      /\ last'.chain_id \notin StoredIds(db)) =>
       /\ ~last'.ok
       /\ \A msg \in {Thrown(last')} :
            /\ Includes(msg, <<"n","o","t"," ","f","o","u","n","d">>)
            /\ Includes(msg, IdText(last'.chain_id))
       /\ db' = db /\ disk' = disk /\ cur' = cur /\ pending' = NoId]_vars

C14_Witness ==
  /\ last.op = "load_thought_chain" /\ ~last.ok
  /\ IdText(last.chain_id) = Characters["non-existent-chain"]
  /\ StoredIds(db) # {}
  /\ Len(cur.steps) = 2

\* C15: every validation error and every not-found error a tool call raises
\* reaches the caller with its own message, whatever the offending action or
\* chain_id is; only the error of a failed Store write may be replaced by the
\* generic message.
C15_ErrorsVerbatim ==
  (~last.ok /\ last.err # StoreError) => Reply(last) = Thrown(last)

C17_NewChainStartsFresh ==
  [][(last.op = "new_chain" /\ last.ok /\ Succeeded("add_step")) =>
       /\ cur'.id = last.chain_id
       /\ Len(GetThoughtChain(db', last.chain_id).steps) = 1
       /\ \A id \in StoredIds(db) \ {last.chain_id} :
            GetThoughtChain(db', id) = GetThoughtChain(db, id)]_vars

\* this step is an add_step or conclude call whose thought is absent, empty or
\* made of white space only
BlankThoughtCall ==
  /\ Called("add_step") \/ Called("conclude")
  /\ Trim(Default(last'.thought)) = <<>>

\* the call changed nothing and attempted no write
NothingTouched ==
  /\ cur' = cur /\ db' = db /\ disk' = disk
  /\ faults' = faults /\ pending' = pending /\ nextId' = nextId

ThoughtRequiredErrors ==
  {"Thought is required for add_step and conclude actions",
   "Thought content is required when adding a step",
   "Conclusion thought is required"}

\* C18 as claimed: add_step or conclude with a thought that is missing, empty
\* or whitespace-only fails with a thought-required error, appends no step,
\* changes no field of the current chain and makes no write to the Store.
C18_BlankThoughtRequired ==
  [][BlankThoughtCall =>
       /\ ~last'.ok
       /\ last'.err \in ThoughtRequiredErrors
       /\ NothingTouched]_vars

\* C18 as amended: such a call always fails and touches nothing; the error is
\* a thought-required error unless validation refuses the call for another
\* reason first: a blank thought over the length limit or holding a control
\* character (tab, line feed, ...) and an invalid reflection are reported as
\* what they are.
ReflectionErrors ==
  {"Reflection content too long (max 5000 characters)",
   "Reflection content contains potentially dangerous content",
   "Reflection content contains potentially dangerous patterns",
   "Reflection content contains invalid characters"}

BadReflection(r) ==
  /\ Truthy(r)
  /\ \/ Len(r) > MaxReflectionLength
     \/ DangerousPatterns(r)
     \/ InjectionPatterns(r)
     \/ ControlCharacters(r)

C18_BlankThoughtRefused ==
  [][BlankThoughtCall =>
       /\ ~last'.ok
       /\ NothingTouched
       /\ IF ~Truthy(last'.thought)
            THEN last'.err = "Thought is required for add_step and conclude actions"
          ELSE IF Len(last'.thought) > MaxThoughtLength
            THEN last'.err = "Thought content too long (max 10000 characters)"
          ELSE IF ControlCharacters(last'.thought)
            THEN last'.err = "Thought content contains invalid characters"
          ELSE IF BadReflection(last'.reflection)
            THEN last'.err \in ReflectionErrors
          ELSE IF last'.op = "add_step"
            THEN last'.err = "Thought content is required when adding a step"
          ELSE last'.err = "Conclusion thought is required"]_vars

C18_Witness ==
  /\ last.op = "conclude" /\ ~last.ok
  /\ last.thought = <<" ">> /\ last.reflection = Undefined
  /\ last.err = "Conclusion thought is required"
  /\ Len(cur.steps) = 2
  /\ GetThoughtChain(db, cur.id) = cur

C20_ReviewReadOnly ==
  [][Called("review_chain") =>
       /\ last'.ok
       /\ Len(Review(cur)) = Len(cur.steps)
       /\ \A i \in 1..Len(cur.steps) :
            /\ Review(cur)[i].id = i
            /\ Review(cur)[i].thought = cur.steps[i].thought
       /\ NothingTouched
       /\ now' = now]_vars

C20_Witness ==
  /\ last.op = "review_chain" /\ last.ok
  /\ Len(cur.steps) = 2
  /\ Review(cur)[1].id < Review(cur)[2].id
  /\ GetThoughtChain(db, cur.id) = cur

(* ----------------------------- recall ---------------------------------- *)
\* the limit a recall_thoughts call searched with
EffectiveLimit(o) == IF o.limit = NoLimit THEN DefaultLimit ELSE o.limit.n

\* the chain has a step whose thought or reflection contains the term,
\* whatever the case of the letters
HasTerm(chain, term) ==
  \E i \in 1..Len(chain.steps) :
    \/ Includes(ToLowerCase(chain.steps[i].thought), ToLowerCase(term))
    \/ /\ chain.steps[i].reflection # NullText
       /\ Includes(ToLowerCase(chain.steps[i].reflection), ToLowerCase(term))

\* the stored chains a search for the term has to consider
Matching(d, term) == {id \in StoredIds(d) : HasTerm(GetThoughtChain(d, id), term)}

Returned(o) == {o.chains[i].id : i \in DOMAIN o.chains}

Min(a, b) == IF a < b THEN a ELSE b

\* the result lists chains of `among` as the Store holds them, none twice,
\* newest first, as many as the limit allows
ListsNewestFirst(o, d, among) ==
  /\ \A i \in DOMAIN o.chains :
       /\ o.chains[i].id \in among
       /\ o.chains[i] = GetThoughtChain(d, o.chains[i].id)
  /\ \A i, j \in DOMAIN o.chains : i < j =>
       /\ o.chains[i].id # o.chains[j].id
       /\ o.chains[i].created >= o.chains[j].created
  /\ Len(o.chains) = Min(EffectiveLimit(o), Cardinality(among))

\* this step is a successful recall_thoughts whose term is blank (or not)
Searched(blank) ==
  /\ Succeeded("recall_thoughts")
  /\ (Trim(Default(out'.query)) = <<>>) = blank

\* C21 (as stated): a search for a non-empty term returns exactly the stored
\* chains with a step whose thought or reflection contains the term
\* case-insensitively, newest first, cut to the limit; a chain without a
\* matching step is never returned, and a matching chain is left out only when
\* `limit` matching chains created later than it exist.
C21_SearchNewerMatching ==
  [][Searched(FALSE) =>
       \A among \in {Matching(db, Default(out'.query))} :
         /\ ListsNewestFirst(out', db, among)
         /\ \A m \in among \ Returned(out') :
              Cardinality({x \in among : db.thought_chains[x].created
                                           > db.thought_chains[m].created})
                >= EffectiveLimit(out')]_vars

\* C21 (amended): the same, but a matching chain is left out only when `limit`
\* matching chains created at the same instant or later are returned.
C21_SearchNewestMatching ==
  [][Searched(FALSE) =>
       \A among \in {Matching(db, Default(out'.query))} :
         /\ ListsNewestFirst(out', db, among)
         /\ \A m \in among \ Returned(out') :
              Cardinality({x \in Returned(out') : db.thought_chains[x].created
                                                    >= db.thought_chains[m].created})
                >= EffectiveLimit(out')]_vars

\* a search for "AB" with limit 1 has returned the newer of two stored chains
\* that both hold "Ab", or the one chain that holds it out of two with steps
C21_Witness ==
  /\ last.op = "recall_thoughts"
  /\ last.ok
  /\ out.query = <<"A", "B">>
  /\ out.limit = Num(1)
  /\ Len(out.chains) = 1
  /\ \E id \in StoredIds(db) \ Returned(out) :
       /\ RowCount(db, id) > 0
       /\ db.thought_chains[id].created < out.chains[1].created

\* C22: a search with an empty or whitespace-only term returns the `limit`
\* most recently created chains, newest first, whatever their steps hold,
\* chains without steps included.
C22_BlankTermListsRecent ==
  [][Searched(TRUE) =>
       /\ ListsNewestFirst(out', db, StoredIds(db))
       /\ \A m \in StoredIds(db) \ Returned(out') :
            \A i \in DOMAIN out'.chains :
              db.thought_chains[m].created <= out'.chains[i].created]_vars

\* a search for " " with limit 1 over two chains has returned the newer one,
\* which has no steps
C22_Witness ==
  /\ last.op = "recall_thoughts"
  /\ last.ok
  /\ out.query = <<" ">>
  /\ out.limit = Num(1)
  /\ Len(out.chains) = 1
  /\ out.chains[1].steps = <<>>
  /\ \E id \in StoredIds(db) :
       /\ db.thought_chains[id].created < out.chains[1].created
       /\ RowCount(db, id) > 0

(* ----------------------------- restarts -------------------------------- *)
\* this step is a restart: the process was shut down and started again
Restarted == Called("initialize")

\* after initialize the slot holds the newest active chain of the Store as the
\* Store has it, or, the Store having no active chain, a fresh empty active
\* chain that the Store does not hold
InitializeSetsSlot ==
  Restarted =>
    IF \E id \in StoredIds(db') : db'.thought_chains[id].status = "active"
      THEN /\ cur'.id \in StoredIds(db')
           /\ cur' = GetThoughtChain(db', cur'.id)
           /\ cur'.status = "active"
           /\ \A id \in StoredIds(db') :
                db'.thought_chains[id].status = "active"
                  => db'.thought_chains[id].created <= cur'.created
      ELSE /\ cur'.id \notin StoredIds(db')
           /\ cur'.id \notin StoredIds(db)
           /\ cur'.steps = <<>>
           /\ cur'.status = "active"

\* a current chain the Store does not hold enters the Store only by a
\* successful add_step or conclude
FreshChainUnsaved ==
  (cur.id \notin StoredIds(db) /\ cur.id \in StoredIds(db'))
    => (Succeeded("add_step") \/ Succeeded("conclude"))

\* C23: on initialize the slot is set to the active chain with the latest
\* created timestamp if the Store holds an active chain; otherwise it keeps a
\* fresh empty active chain, which is not in the Store until its first
\* successful mutation.
C23_InitializeSlot == [][InitializeSetsSlot /\ FreshChainUnsaved]_vars

\* the calls that report a change of a chain as done
Mutations == {"new_chain", "add_step", "conclude", "load_thought_chain"}

\* C24: chains persist across restarts: after a shutdown and a new start on
\* the same backing file, a chain whose mutation (new_chain, add_step,
\* conclude, load) reported success before the shutdown is retrievable with
\* the status, timestamps and steps the Store had for it.
C24_PersistsAcrossRestart ==
  [][(Restarted /\ last.ok /\ last.op \in Mutations) =>
       /\ GetThoughtChain(db', last.chain_id) # NoChain
       /\ GetThoughtChain(db', last.chain_id) = GetThoughtChain(db, last.chain_id)]_vars

(* ------------------------------ get_stats ------------------------------ *)
RECURSIVE SumOfRowCounts(_, _)
SumOfRowCounts(d, ids) ==
  IF ids = {} THEN 0
  ELSE LET id == CHOOSE i \in ids : TRUE
       IN RowCount(d, id) + SumOfRowCounts(d, ids \ {id})

\* no step row without its chain, no step number twice in a chain
NoStrayRows(d) ==
  /\ \A i \in DOMAIN d.thought_steps : d.thought_steps[i].chain_id \in StoredIds(d)
  /\ \A i, j \in DOMAIN d.thought_steps :
       (i < j /\ d.thought_steps[i].chain_id = d.thought_steps[j].chain_id)
         => d.thought_steps[i].step_number # d.thought_steps[j].step_number

\* the counts of the Store, counted chain by chain
CountsOf(stats, d) ==
  /\ stats.totalChains = Cardinality(StoredIds(d))
  /\ stats.totalSteps = SumOfRowCounts(d, StoredIds(d))
  /\ stats.activeChains = Cardinality({id \in StoredIds(d) :
                                         d.thought_chains[id].status = "active"})
  /\ stats.activeChains <= stats.totalChains

\* C25: in every reachable state getStats reports totalChains = the number of
\* chain ids in the Store, totalSteps = the sum of the step counts of the stored
\* chains (no orphaned or duplicated step rows after any sequence of saves) and
\* activeChains = the number of stored chains with status "active", hence
\* activeChains <= totalChains; and get_stats returns these counts.
C25_StatsCounts ==
  /\ [](NoStrayRows(db) /\ CountsOf(GetStats(db), db))
  /\ [][Called("get_stats") => (last'.ok /\ CountsOf(out'.stats, db))]_vars

\* get_stats has reported two chains, one of them concluded, and their steps
C25_Witness ==
  /\ last.op = "get_stats"
  /\ out.stats.totalChains = 2
  /\ out.stats.activeChains = 1
  /\ out.stats.totalSteps > 0

(* ---------------------------- rate limiter ----------------------------- *)
Clients == {ServerClient, OtherClient}

\* the calls of one client that isAllowed has admitted among the first n asked
Admitted(clientId, n) ==
  {i \in 1..n : asked[i].client = clientId /\ asked[i].allowed}

\* C26: for every client and every instant t, at most maxRequests calls with
\* timestamps in (t - windowMs, t] were admitted; and a call is admitted
\* exactly when fewer than maxRequests admitted calls of its client lie in its
\* window, so that the first k calls within one window are allowed and the
\* (k+1)-th is denied.
C26_LimiterBound ==
  \A clientId \in Clients :
    /\ \A t \in 0..MaxMs :
         Cardinality({i \in Admitted(clientId, Len(asked)) :
                        asked[i].at > t - WindowMs /\ asked[i].at <= t}) <= MaxRequests
    /\ \A n \in DOMAIN asked :
         asked[n].client = clientId =>
           (asked[n].allowed <=>
              Cardinality({i \in Admitted(clientId, n - 1) :
                             asked[i].at > asked[n].at - WindowMs}) < MaxRequests)

\* one client has made maxRequests + 1 calls within one window: all but the
\* last were admitted
C26_Witness ==
  \E clientId \in Clients :
    /\ Len(asked) = MaxRequests + 1
    /\ \A i \in DOMAIN asked : asked[i].client = clientId /\ asked[i].at > ms - WindowMs
    /\ \A i \in 1..MaxRequests : asked[i].allowed
    /\ ~asked[MaxRequests + 1].allowed

\* this step asks the limiter about a call of the client
Asks(clientId) ==
  /\ Len(asked') = Len(asked) + 1
  /\ asked'[Len(asked')].client = clientId

\* C27: once windowMs has passed since every admitted call of a client, the
\* client's next call is admitted, whether or not cleanup has run in between.
C27_LimiterRecovers ==
  [][\A clientId \in Clients :
       (/\ Asks(clientId)
        /\ \A i \in Admitted(clientId, Len(asked)) : asked[i].at + WindowMs <= ms)
         => asked'[Len(asked')].allowed]_vars

\* a client that had used up its window has been admitted again after the
\* window has passed
C27_Witness ==
  \E clientId \in Clients :
    /\ Len(asked) = MaxRequests + 1
    /\ \A i \in DOMAIN asked : asked[i].client = clientId /\ asked[i].allowed
    /\ \A i \in 1..MaxRequests : asked[i].at + WindowMs <= asked[MaxRequests + 1].at

\* this step is a tool call the limiter refused
Refused == calls' = calls + 1 /\ last'.err = RateLimitExceeded

\* C28: a tool call the rate limiter rejects returns the rate-limit failure
\* and reaches no handler: the current chain, the Store and the backing file are
\* as before, and the call is not recorded in the limiter's window, which holds
\* the client's unexpired admitted calls and nothing else.
C28_RefusedCallFrame ==
  [][Refused =>
       /\ ~last'.ok
       /\ Reply(last') = Characters[RateLimitExceeded]
       /\ UNCHANGED <<cur, db, disk, now, nextId, pending, out>>
       /\ requests'[ServerClient] = ValidRequests(RequestsOf(requests, ServerClient), ms)]_vars

\* a call has been refused after the calls before it had added steps to the
\* current chain and stored them
C28_Witness ==
  /\ last.err = RateLimitExceeded
  /\ Len(cur.steps) = MaxRequests
  /\ cur.id \in StoredIds(db)
  /\ Len(requests[ServerClient]) = MaxRequests

(* ----------------------------- concurrency ----------------------------- *)
\* C29: tool calls take effect one at a time on the current-chain slot: while a
\* load_thought_chain call has persisted the reactivation of its chain and has
\* not yet swapped the slot, no add_step or conclude call changes the current
\* chain or the Store.
C29_LoadNotInterleaved ==
  [][(pending # NoId /\ (Called("add_step") \/ Called("conclude")))
       => (cur' = cur /\ db' = db)]_vars

(* ------------------------- punctuation in prose ------------------------ *)
\* ordinary prose with a quote, apostrophe, semicolon or backslash: within the
\* length limit, no SQL comment marker, no markup or script pattern, no control
\* character (the texts offered hold no SQL keyword)
PunctuatedProse(thought) ==
  /\ Truthy(thought)
  /\ Trim(thought) # <<>>
  /\ Len(thought) <= MaxThoughtLength
  /\ \E i \in 1..Len(thought) : thought[i] \in {"'", "\"", ";", "\\"}
  /\ ~Includes(thought, <<"-", "-">>)
  /\ ~Includes(thought, <<"/", "*">>)
  /\ ~Includes(thought, <<"*", "/">>)
  /\ ~DangerousPatterns(thought)
  /\ ~ControlCharacters(thought)

\* C30: a thought within the length limit that holds a quote, apostrophe,
\* semicolon or backslash in ordinary prose is accepted by validation, and
\* add_step with it succeeds and appends the step (no write failing).
C30_PunctuationAccepted ==
  [][(/\ Called("add_step")
      /\ PunctuatedProse(last'.thought)
      /\ ~Truthy(last'.reflection)
      /\ last'.fault = "none") =>
       /\ last'.ok
       /\ Len(cur'.steps) = Len(cur.steps) + 1
       /\ cur'.steps[Len(cur'.steps)].thought = Trim(last'.thought)]_vars

\* the step is an add_step or conclude call
MutationCalled == Called("add_step") \/ Called("conclude")

\* the words that denote structural SQL
SqlKeywords ==
  {<<"o","r">>, <<"a","n","d">>, <<"u","n","i","o","n">>, <<"s","e","l","e","c","t">>,
   <<"i","n","s","e","r","t">>, <<"u","p","d","a","t","e">>, <<"d","e","l","e","t","e">>,
   <<"d","r","o","p">>, <<"c","r","e","a","t","e">>, <<"a","l","t","e","r">>,
   <<"e","x","e","c">>}

\* the first position from k on that holds no blank
RECURSIVE SkipBlanks(_, _)
SkipBlanks(s, k) == IF k <= Len(s) /\ s[k] = " " THEN SkipBlanks(s, k + 1) ELSE k

\* a quote or semicolon with a structural SQL keyword right after it (blanks
\* between them allowed), in either case of the letters
KeywordAfterPunctuation(thought) ==
  \E i \in 1..Len(thought) :
    /\ thought[i] \in {"'", "\"", ";"}
    /\ \E j \in {SkipBlanks(thought, i + 1)} : \E kw \in SqlKeywords :
         /\ j + Len(kw) - 1 <= Len(thought)
         /\ ToLowerCase(SubSeq(thought, j, j + Len(kw) - 1)) = kw

\* an SQL comment marker
CommentMarker(thought) ==
  \/ Includes(thought, <<"-","-">>)
  \/ Includes(thought, <<"/","*">>)
  \/ Includes(thought, <<"*","/">>)

SqlShaped(thought) == KeywordAfterPunctuation(thought) \/ CommentMarker(thought)

\* the call just made was refused for this reason and appended no step
RefusedFor(reason) ==
  /\ ~last'.ok
  /\ last'.err = reason
  /\ cur' = cur
  /\ db' = db
  /\ disk' = disk

TooLongReason == "Thought content too long (max 10000 characters)"
ContentReason == "Thought content contains potentially dangerous content"
PatternReason == "Thought content contains potentially dangerous patterns"
CharacterReason == "Thought content contains invalid characters"

\* C31 (as stated): every thought with a quote or semicolon next to a
\* structural SQL keyword, or with an SQL comment marker, is refused with the
\* reason "dangerous patterns", and no step is appended.
C31_SqlRefusedForPatterns ==
  [][(MutationCalled /\ SqlShaped(last'.thought)) => RefusedFor(PatternReason)]_vars

\* C31 (amended): every such thought is refused and no step is appended; the
\* reason is "dangerous patterns" when the thought is within the length limit
\* and the markup/script filter does not match it, "too long" when it is over
\* the limit, and "dangerous content" otherwise.
C31_SqlRefused ==
  [][(MutationCalled /\ SqlShaped(last'.thought)) =>
       RefusedFor(IF Len(last'.thought) > MaxThoughtLength THEN TooLongReason
                  ELSE IF DangerousPatterns(last'.thought) THEN ContentReason
                  ELSE PatternReason)]_vars

\* an SQL payload inside ordinary words was refused for its pattern
C31_Witness ==
  /\ last.op = "add_step"
  /\ ~last.ok
  /\ last.err = PatternReason
  /\ KeywordAfterPunctuation(last.thought)
  /\ last.thought[1] = "a"
  /\ cur.steps = <<>>

\* `<script`, `javascript:` or `on<word>=` somewhere, in either case of the letters
ContainsMarkup(thought) ==
  \/ \E i \in 1..(Len(thought) - 6) :
       ToLowerCase(SubSeq(thought, i, i + 6)) = <<"<","s","c","r","i","p","t">>
  \/ \E i \in 1..(Len(thought) - 10) :
       ToLowerCase(SubSeq(thought, i, i + 10)) = <<"j","a","v","a","s","c","r","i","p","t",":">>
  \/ \E i \in 1..(Len(thought) - 3) : \E n \in 1..(Len(thought) - i - 2) :
       /\ ToLowerCase(SubSeq(thought, i, i + 1)) = <<"o","n">>
       /\ \A k \in (i + 2)..(i + 1 + n) : IsWordChar(thought[k])
       /\ thought[i + 2 + n] = "="

\* C32: every thought within the length limit that contains `<script`,
\* `javascript:` or `on<word>=` (in any case of the letters) is refused with the
\* reason "dangerous content", whether or not it also has injection syntax or
\* control characters in it.
C32_MarkupRefusedForContent ==
  [][(/\ MutationCalled
      /\ Len(last'.thought) <= MaxThoughtLength
      /\ ContainsMarkup(last'.thought)) => RefusedFor(ContentReason)]_vars

\* markup in capitals, with quotes in it, was refused for its content
C32_Witness ==
  /\ last.op \in {"add_step", "conclude"}
  /\ ~last.ok
  /\ last.err = ContentReason
  /\ ContainsMarkup(last.thought)
  /\ ~DangerousPatterns_CaseSensitive(last.thought)
  /\ InjectionPatterns(last.thought)

\* a character of 0x00-0x1F or 0x7F somewhere
HasControl(thought) == \E i \in 1..Len(thought) : IsControl(thought[i])

\* C33 (as stated): every thought with a character of 0x00-0x1F or 0x7F in it
\* is refused with the reason "invalid characters".
C33_ControlRefusedForCharacters ==
  [][(MutationCalled /\ HasControl(last'.thought)) => RefusedFor(CharacterReason)]_vars

\* C33 (amended): every such thought is refused and no step is appended; the
\* reason is "invalid characters" when the thought is within the length limit
\* and neither the markup/script filter nor the injection-syntax filter
\* matches it, and the reason of the first of these three tests that fails
\* otherwise.
C33_ControlRefused ==
  [][(MutationCalled /\ HasControl(last'.thought)) =>
       RefusedFor(IF Len(last'.thought) > MaxThoughtLength THEN TooLongReason
                  ELSE IF DangerousPatterns(last'.thought) THEN ContentReason
                  ELSE IF InjectionPatterns(last'.thought) THEN PatternReason
                  ELSE CharacterReason)]_vars

\* a thought with a NUL inside it was refused for its characters
C33_Witness ==
  /\ last.op \in {"add_step", "conclude"}
  /\ ~last.ok
  /\ last.err = CharacterReason
  /\ \E i \in 2..(Len(last.thought) - 1) : last.thought[i] = "NUL"

\* C34: a recall_thoughts query is refused whenever it has a character of
\* 0x00-0x1F (tab, line feed and carriage return included) or 0x7F in it: no
\* search is made with such a query.
C34_QueryControlRefused ==
  [][Succeeded("recall_thoughts") => ~HasControl(Default(out'.query))]_vars

\* the identifier grammar ^[A-Za-z0-9_-]{1,100}$
IdCharacters == Range(UpperSeq) \cup Range(LowerSeq) \cup Range(DigitSeq) \cup {"_", "-"}

WellFormedId(chain_id) ==
  /\ Len(chain_id) >= 1
  /\ Len(chain_id) <= MaxChainIdLength
  /\ \A i \in 1..Len(chain_id) : chain_id[i] \in IdCharacters

\* the reasons for which the validator refuses a chain_id
LoadValidationErrors ==
  {"Chain ID is required and must be a string",
   "Chain ID too long (max 100 characters)",
   "Chain ID contains invalid characters or invalid length",
   "Chain ID contains invalid path sequences"}

\* the step is a load_thought_chain call, up to its write or its refusal
LoadCalled == Called("load_thought_chain") \/ Called("load_persist")

\* C35: the validator lets a chain_id through if and only if it is 1 to 100
\* characters of A-Z, a-z, 0-9, underscore and hyphen; every other id (with
\* "..", "/", blanks or other characters in it, "../../../etc/passwd" among
\* them) is refused with nothing read from or written to the Store, and
\* "valid-chain-id-123" is let through.
C35_ChainIdGrammar ==
  [][LoadCalled =>
       \A chain_id \in {IdText(last'.chain_id)} :
         /\ WellFormedId(chain_id) <=> last'.err \notin LoadValidationErrors
         /\ ~WellFormedId(chain_id) =>
              /\ ~last'.ok
              /\ UNCHANGED <<cur, db, disk, pending, out>>]_vars

\* "../../../etc/passwd" was refused by the validator
C35_Witness ==
  /\ last.op = "load_thought_chain"
  /\ IdText(last.chain_id) = ProbedIds[0 - 4]
  /\ Includes(IdText(last.chain_id), <<".", ".", "/">>)
  /\ ~last.ok
  /\ last.err \in LoadValidationErrors
  /\ db = EmptyDb

\* C36: a recall_thoughts call with a limit outside 1..100 (0, a negative
\* number, a number above 100) or with a limit that is no number is refused, so
\* the Store is never searched with a limit outside 1..100.
C36_LimitInRange ==
  [][Succeeded("recall_thoughts") =>
       \/ out'.limit = NoLimit
       \/ /\ out'.limit.type = "number"
          /\ out'.limit.n >= MinLimit
          /\ out'.limit.n <= MaxLimit]_vars

\* this step is a load_thought_chain call returning to its caller (a restart
\* drops a load in flight without returning)
LoadReturned == LoadReturns /\ last'.op = "load_thought_chain"

\* the Store's copy of a chain is the chain held in memory
Agrees(d, chain) == GetThoughtChain(d, chain.id) = chain

\* C37: after every successful add_step, conclude or load, getThoughtChain of
\* the current chain's id returns a chain equal to the one in memory (id,
\* created, updated, concluded, status, all steps); and once the two copies
\* agree, a successful new_chain or review_chain leaves them agreeing.
C37_MemoryStoreAgree ==
  [][/\ (Succeeded("add_step") \/ Succeeded("conclude")) => Agrees(db', cur')
     /\ (LoadReturned /\ last'.ok) => Agrees(db', cur')
     /\ (Agrees(db, cur) /\ (Succeeded("new_chain") \/ Succeeded("review_chain"))) =>
          Agrees(db', cur')]_vars

\* a step was added and stored after an earlier write had failed half-way
C37_Witness ==
  /\ last.op = "add_step" /\ last.ok
  /\ faults = 1
  /\ Len(cur.steps) = 2
  /\ cur.updated # Null
  /\ Agrees(db, cur)

\* two chains that differ in their status at most
SameButStatus(a, b) == [a EXCEPT !.status = "active"] = [b EXCEPT !.status = "active"]

\* C38: a successful load changes only the status of the target chain: the
\* write of the load leaves its id, stamps and steps as stored, nothing else
\* changes them until the load returns, and the chain then put in the slot is
\* the stored one.
C38_LoadChangesOnlyStatus ==
  [][/\ Succeeded("load_persist") =>
          SameButStatus(GetThoughtChain(db, pending'), GetThoughtChain(db', pending'))
     /\ pending # NoId =>
          SameButStatus(GetThoughtChain(db, pending), GetThoughtChain(db', pending))
     /\ LoadReturns =>
          /\ SameButStatus(GetThoughtChain(db, pending), cur')
          /\ db' = db]_vars

\* the rows thought_steps holds for one chain, in table order
Rows(d, id) == SelectSeq(d.thought_steps, LAMBDA r : r.chain_id = id)

\* C39: add_step and conclude touch only the Store record of the current
\* chain, and load only the record of the chain it loads: the header and the
\* step rows of every other stored chain are the same after the call, whether
\* it succeeds or fails.
C39_ChainIsolation ==
  [][(MutationCalled \/ LoadCalled \/ LoadReturned) =>
       /\ MutationCalled => last'.chain_id = cur.id
       /\ \A id \in StoredIds(db) \ {last'.chain_id} :
            /\ id \in StoredIds(db')
            /\ db'.thought_chains[id] = db.thought_chains[id]
            /\ Rows(db', id) = Rows(db, id)]_vars

\* a chain was loaded while the Store held another chain with steps
C39_Witness ==
  /\ last.op = "load_thought_chain" /\ last.ok
  /\ cur.id = last.chain_id
  /\ \E id \in StoredIds(db) \ {cur.id} : RowCount(db, id) > 0

\* the isAllowed calls of a log made one after the other on a limiter whose
\* cleanup never runs: its Map at the end and its verdicts
RECURSIVE Replay(_)
Replay(log) ==
  IF log = <<>> THEN [requests |-> <<>>, verdicts |-> <<>>]
  ELSE LET before == Replay(SubSeq(log, 1, Len(log) - 1))
           e == log[Len(log)]
           verdict == IsAllowed(before.requests, e.client, e.at)
       IN [requests |-> verdict.requests, verdicts |-> Append(before.verdicts, verdict.allowed)]

\* this step is a run of cleanup() that removed something
CleanedUp == asked' = asked /\ ms' = ms /\ requests' # requests

\* C40: with cleanup() run at any points between them, the isAllowed calls
\* made so far were each answered as the same calls are answered without any
\* cleanup; and a cleanup removes only timestamps that have left the window
\* and clients that have none left.
C40_CleanupTransparent ==
  /\ [](\A verdicts \in {Replay(asked).verdicts} :
          \A i \in 1..Len(asked) : asked[i].allowed = verdicts[i])
  /\ [][CleanedUp =>
          /\ DOMAIN requests' \subseteq DOMAIN requests
          /\ \A c \in DOMAIN requests :
               /\ RequestsOf(requests', c) =
                    SelectSeq(requests[c], LAMBDA timestamp : timestamp + WindowMs > ms)
               /\ c \notin DOMAIN requests' =>
                    \A i \in 1..Len(requests[c]) : requests[c][i] + WindowMs <= ms]_vars

\* cleanup has dropped a client that had been admitted, and a call was
\* answered at a time when that client's window had run out
C40_Witness ==
  /\ Len(asked) >= 2
  /\ \E i \in 1..(Len(asked) - 1) :
       /\ asked[i].allowed
       /\ asked[i].client \notin DOMAIN requests
       /\ asked[Len(asked)].at >= asked[i].at + WindowMs
  /\ asked[Len(asked)].allowed

====
